---- MODULE Spec2Model ----
(***************************************************************************)
(* A model of the trip planner (src/app.py): the SQLite tables as sets of  *)
(* rows, one action per request handler.  Dates are day ordinals of a      *)
(* small calendar; the text of a date is an ISO string, as stored.         *)
(***************************************************************************)
EXTENDS Integers, Sequences, FiniteSets, TLC

VARIABLES trips, itinerary, day_items, trip_stops, budget_items,
          packing_items, seq, last, reading

vars == <<trips, itinerary, day_items, trip_stops, budget_items,
          packing_items, seq, last, reading>>

\* reading holds the edit_trip requests in flight: each has its own
\* connection (get_db), has read the trip row and has not yet written.

(***************************************************************************)
(* Bounds of the model.                                                    *)
(***************************************************************************)
MaxDate == 4
MaxRangeDate == 3
MaxTrips == 2
MaxDays == 4
MaxItems == 2
MaxStops == 1
MaxBudget == 1
MaxPacking == 1

(***************************************************************************)
(* Text.  None is Python's None and SQL's NULL.                            *)
(***************************************************************************)
None == "<None>"

\* The strings of the model that carry surrounding whitespace, with what
\* str.strip() leaves of them.
Padded ==
    { <<" Oslo ", "Oslo">>, <<"   ", "">>, <<" walk ", "walk">>,
      <<" 2024-01-02 ", "2024-01-02">>, <<" Louvre", "Louvre">>,
      <<"Restaurant ", "Restaurant">>, <<" No ", "No">>, <<" 0", "0">>, <<"Husk ", "Husk">>, <<" Oslo", "Oslo">> }

strip(s) ==
    IF \E p \in Padded : p[1] = s
    THEN (CHOOSE p \in Padded : p[1] = s)[2]
    ELSE s

\* The strings of the model that carry upper-case letters, with str.lower().
Cased ==
    { <<"Restaurant", "restaurant">>, <<"HOTEL", "hotel">>,
      <<"Morning", "morning">>, <<"Lunch", "lunch">>, <<"No", "no">>,
      <<"Spa", "spa">>, <<"Oslo", "oslo">>, <<"Tokyo", "tokyo">>,
      <<"Louvre", "louvre">>, <<"Husk", "husk">>,
      <<"Foodie", "foodie">>, <<"Dinner", "dinner">>, <<"Oslo Inn", "oslo inn">>,
      <<"Hotel Niwa Tokyo", "hotel niwa tokyo">>, <<"FALSE", "false">>, <<"N", "n">>,
      <<"Yes", "yes">>, <<"Evening", "evening">>, <<"Flexible", "flexible">>,
      <<"Charleston", "charleston">>, <<"Seattle", "seattle">>,
      <<"Shinjuku Granbell Hotel", "shinjuku granbell hotel">>,
      <<"Noma", "noma">>, <<"Maaemo", "maaemo">>,
      <<"Budget", "budget">>, <<"Family", "family">>,
      <<"Luxury", "luxury">> }

lower(s) ==
    IF \E p \in Cased : p[1] = s
    THEN (CHOOSE p \in Cased : p[1] = s)[2]
    ELSE s

Min(S) == CHOOSE x \in S : \A y \in S : x <= y

Max(S) == CHOOSE x \in S : \A y \in S : y <= x

\* value or "": the idiom (x or "").
OrEmpty(s) == IF s = None THEN "" ELSE s

\* Python truthiness of an optional string.
Truthy(s) == s # None /\ s # ""

(***************************************************************************)
(* Dates.                                                                  *)
(***************************************************************************)
Dates == 1..MaxDate

IsoDates ==
    << "2024-01-01", "2024-01-02", "2024-01-03", "2024-01-04",
       "2024-01-05", "2024-01-06" >>

\* strptime's %m and %d also take one digit.
ShortDates ==
    << "2024-1-1", "2024-1-2", "2024-1-3", "2024-1-4", "2024-1-5",
       "2024-1-6" >>

isoformat(d) == IsoDates[d]

ValueError == 0

parse_date(value) ==
    IF \E d \in Dates : value \in {IsoDates[d], ShortDates[d]}
    THEN CHOOSE d \in Dates : value \in {IsoDates[d], ShortDates[d]}
    ELSE ValueError

(***************************************************************************)
(* Tables.                                                                 *)
(***************************************************************************)
SlotFields ==
    { "morning_title", "morning_description", "morning_map_link",
      "afternoon_title", "afternoon_description", "afternoon_map_link",
      "evening_title", "evening_description", "evening_map_link" }

EmptySlots == [f \in SlotFields |-> None]

\* INSERT INTO itinerary (trip_id, day_number, date)
NewDay(id, trip_id, day_number, date) ==
    [id |-> id, trip_id |-> trip_id, day_number |-> day_number,
     date |-> date, slots |-> EmptySlots]

TripRow(trip_id) == CHOOSE t \in trips : t.id = trip_id

TripExists(trip_id) == \E t \in trips : t.id = trip_id

DaysOf(trip_id) == {d \in itinerary : d.trip_id = trip_id}

Ids(rows) == {r.id : r \in rows}

ItemsOf(trip_id) ==
    {i \in day_items : i.itinerary_id \in Ids(DaysOf(trip_id))}

StopsOf(trip_id) == {s \in trip_stops : s.trip_id = trip_id}

\* ORDER BY: the rows as a sequence, by the key k[row], rowid among equals.
RECURSIVE OrderBy(_, _)
OrderBy(rows, k) ==
    IF rows = {} THEN <<>>
    ELSE LET first == CHOOSE r \in rows :
                          \A o \in rows :
                              \/ k[r] < k[o]
                              \/ k[r] = k[o] /\ r.id <= o.id
         IN  <<first>> \o OrderBy(rows \ {first}, k)

OrderByDayNumber(days) == OrderBy(days, [d \in days |-> d.day_number])

OrderById(rows) == OrderBy(rows, [r \in rows |-> r.id])

\* What the last request was and what it answered: the handler, the trip id
\* of its URL (or of its redirect, for a handler that creates the trip), the
\* flashed message, the uploaded rows, the trip an upload was exported from
\* (0: none), the trip row the handler read first and the day ids it
\* deleted.
NoTrip ==
    [id |-> 0, destination |-> "", start_date |-> "", end_date |-> "",
     travel_style |-> ""]

Answer(op, trip_id, flash) ==
    [op |-> op, trip_id |-> trip_id, flash |-> flash, file |-> <<>>,
     source |-> 0, before |-> NoTrip, removed |-> {}]

NoRequest == Answer("none", 0, "")

Init ==
    /\ trips = {}
    /\ itinerary = {}
    /\ day_items = {}
    /\ trip_stops = {}
    /\ budget_items = {}
    /\ packing_items = {}
    /\ seq = [trips |-> 0, itinerary |-> 0, day_items |-> 0,
              trip_stops |-> 0, budget_items |-> 0, packing_items |-> 0]
    /\ last = NoRequest
    /\ reading = {}

(***************************************************************************)
(* The day loop of new_trip and import_trip_csv: one row per date of       *)
(* start..end, numbered from 1, ids from the table's counter.              *)
(***************************************************************************)
RangeDays(trip_id, start_date, end_date, first_id) ==
    { NewDay(first_id + (d - start_date), trip_id, 1 + (d - start_date),
             isoformat(d)) : d \in start_date..end_date }


\* A request that returns before any write, or closes without commit.
Reject(answer) ==
    /\ last' = answer
    /\ UNCHANGED <<trips, itinerary, day_items, trip_stops, budget_items,
                   packing_items, seq>>

(***************************************************************************)
(* POST /trip/new                                                          *)
(***************************************************************************)
\* new_trip without the comparison of the two dates.
new_trip_any_order(destination_raw, start_str, end_str, style_raw) ==
    LET destination == strip(OrEmpty(destination_raw))
        travel_style == IF Truthy(style_raw) THEN style_raw ELSE "Flexible"
        start_date == parse_date(start_str)
        end_date == parse_date(end_str)
        trip_id == seq.trips + 1
        days == RangeDays(trip_id, start_date, end_date, seq.itinerary + 1)
    IN  IF ~Truthy(destination) \/ ~Truthy(start_str) \/ ~Truthy(end_str)
        THEN Reject(Answer("new_trip", 0,
                 "Please provide destination, start date, and end date."))
        ELSE IF start_date = ValueError \/ end_date = ValueError
        THEN Reject(Answer("new_trip", 0,
                 "Dates must be in YYYY-MM-DD format."))
        ELSE /\ trips' = trips \cup
                    {[id |-> trip_id, destination |-> destination,
                      start_date |-> isoformat(start_date),
                      end_date |-> isoformat(end_date),
                      travel_style |-> travel_style]}
             /\ itinerary' = itinerary \cup days
             /\ seq' = [seq EXCEPT !.trips = trip_id,
                                   !.itinerary = @ + Cardinality(days)]
             /\ last' = Answer("new_trip", trip_id, "Trip created.")
             /\ UNCHANGED <<day_items, trip_stops, budget_items,
                            packing_items>>

new_trip(destination_raw, start_str, end_str, style_raw) ==
    LET destination == strip(OrEmpty(destination_raw))
        travel_style == IF Truthy(style_raw) THEN style_raw ELSE "Flexible"
        start_date == parse_date(start_str)
        end_date == parse_date(end_str)
        trip_id == seq.trips + 1
        days == RangeDays(trip_id, start_date, end_date, seq.itinerary + 1)
    IN  IF ~Truthy(destination) \/ ~Truthy(start_str) \/ ~Truthy(end_str)
        THEN Reject(Answer("new_trip", 0,
                 "Please provide destination, start date, and end date."))
        ELSE IF start_date = ValueError \/ end_date = ValueError
        THEN Reject(Answer("new_trip", 0,
                 "Dates must be in YYYY-MM-DD format."))
        ELSE IF end_date < start_date
        THEN Reject(Answer("new_trip", 0,
                 "End date cannot be before start date."))
        ELSE /\ trips' = trips \cup
                    {[id |-> trip_id, destination |-> destination,
                      start_date |-> isoformat(start_date),
                      end_date |-> isoformat(end_date),
                      travel_style |-> travel_style]}
             /\ itinerary' = itinerary \cup days
             /\ seq' = [seq EXCEPT !.trips = trip_id,
                                   !.itinerary = @ + Cardinality(days)]
             /\ last' = Answer("new_trip", trip_id, "Trip created.")
             /\ UNCHANGED <<day_items, trip_stops, budget_items,
                            packing_items>>

(***************************************************************************)
(* POST /trip/<trip_id>/edit                                               *)
(***************************************************************************)
\* by_date = {row["date"]: row for row in existing_days}: of the rows of one
\* date the last in ORDER BY day_number stays (rowid order among equals).
by_date(existing_days, date_str) ==
    CHOOSE row \in existing_days :
        /\ row.date = date_str
        /\ \A o \in existing_days :
               o.date = date_str =>
                   \/ o.day_number < row.day_number
                   \/ o.day_number = row.day_number /\ o.id <= row.id

\* The loop without the UPDATE of a reused day.
RECURSIVE ReconcileLoopNoUpdate(_, _, _, _, _)
ReconcileLoopNoUpdate(current, new_end, existing_days, trip_id, acc) ==
    IF current > new_end THEN acc
    ELSE LET date_str == isoformat(current)
         IN  IF \E r \in existing_days : r.date = date_str
             THEN ReconcileLoopNoUpdate(current + 1, new_end, existing_days,
                      trip_id,
                      [acc EXCEPT
                          !.used_ids = @ \cup
                              {by_date(existing_days, date_str).id},
                          !.day_number = @ + 1])
             ELSE ReconcileLoopNoUpdate(current + 1, new_end, existing_days,
                      trip_id,
                      [acc EXCEPT
                          !.rows = @ \cup {NewDay(acc.next + 1, trip_id,
                                               acc.day_number, date_str)},
                          !.next = @ + 1,
                          !.day_number = @ + 1])

\* The while loop over new_start..new_end.  acc holds the itinerary table,
\* its id counter, used_ids and day_number.
RECURSIVE ReconcileLoop(_, _, _, _, _)
ReconcileLoop(current, new_end, existing_days, trip_id, acc) ==
    IF current > new_end THEN acc
    ELSE LET date_str == isoformat(current)
         IN  IF \E r \in existing_days : r.date = date_str
             THEN LET row == by_date(existing_days, date_str)
                  IN  ReconcileLoop(current + 1, new_end, existing_days,
                          trip_id,
                          [acc EXCEPT
                              !.rows = { IF r.id = row.id
                                         THEN [r EXCEPT
                                                 !.day_number = acc.day_number,
                                                 !.date = date_str]
                                         ELSE r : r \in acc.rows },
                              !.used_ids = @ \cup {row.id},
                              !.day_number = @ + 1])
             ELSE ReconcileLoop(current + 1, new_end, existing_days,
                      trip_id,
                      [acc EXCEPT
                          !.rows = @ \cup {NewDay(acc.next + 1, trip_id,
                                               acc.day_number, date_str)},
                          !.next = @ + 1,
                          !.day_number = @ + 1])

\* A to_remove that forgets the first day it should name.
to_remove_but_one(existing_days, used_ids) ==
    LET ids == {row.id : row \in {r \in existing_days :
                                      r.id \notin used_ids}}
    IN  IF ids = {} THEN {} ELSE ids \ {Min(ids)}

\* The ids edit_trip deletes: the existing days the loop did not use.
to_remove(existing_days, used_ids) ==
    {row.id : row \in {r \in existing_days : r.id \notin used_ids}}

\* No DELETE FROM day_items.
without_days_kept(items, day_ids) == items

\* DELETE FROM day_items WHERE itinerary_id IN (...)
without_days(items, day_ids) ==
    {i \in items : i.itinerary_id \notin day_ids}

\* A rebuild of the days from nothing, in place of the reconciliation.
adjust_days_rebuilt(trip_id, new_start, new_end, old_start, old_end) ==
    LET existing_days == DaysOf(trip_id)
        fresh == RangeDays(trip_id, new_start, new_end, seq.itinerary + 1)
    IN  [rows |-> (itinerary \ existing_days) \cup fresh,
         items |-> without_days(day_items, Ids(existing_days)),
         next |-> seq.itinerary + Cardinality(fresh),
         removed |-> Ids(existing_days)]

\* "Adjust itinerary days if the date range changed": the itinerary and
\* day_items tables and the itinerary id counter afterwards, and the ids
\* removed.
adjust_days(trip_id, new_start, new_end, old_start, old_end) ==
    IF new_start # old_start \/ new_end # old_end
    THEN LET existing_days == DaysOf(trip_id)
             done == ReconcileLoop(new_start, new_end, existing_days,
                         trip_id,
                         [rows |-> itinerary, next |-> seq.itinerary,
                          used_ids |-> {}, day_number |-> 1])
             gone == to_remove(existing_days, done.used_ids)
         IN  [rows |-> {r \in done.rows : r.id \notin gone},
              items |-> without_days(day_items, gone),
              next |-> done.next,
              removed |-> gone]
    ELSE [rows |-> itinerary, items |-> day_items, next |-> seq.itinerary,
          removed |-> {}]

\* edit_trip also deleting the stops that are not within the new range.
edit_trip_trimming_stops(trip_id, destination_raw, start_str, end_str, style_raw) ==
    IF ~TripExists(trip_id)
    THEN Reject(Answer("edit_trip", trip_id, "Trip not found."))
    ELSE
    LET trip == TripRow(trip_id)
        destination == strip(OrEmpty(destination_raw))
        travel_style == IF Truthy(style_raw) THEN style_raw ELSE "Flexible"
        new_start == parse_date(start_str)
        new_end == parse_date(end_str)
        old_start == parse_date(trip.start_date)
        old_end == parse_date(trip.end_date)
        adjusted == adjust_days(trip_id, new_start, new_end, old_start,
                        old_end)
        answer(flash) ==
            [Answer("edit_trip", trip_id, flash) EXCEPT !.before = trip]
    IN  IF ~Truthy(destination) \/ ~Truthy(start_str) \/ ~Truthy(end_str)
        THEN Reject(answer(
                 "Please provide destination, start date, and end date."))
        ELSE IF new_start = ValueError \/ new_end = ValueError
        THEN Reject(answer("Dates must be in YYYY-MM-DD format."))
        ELSE IF new_end < new_start
        THEN Reject(answer("End date cannot be before start date."))
        ELSE /\ trips' = (trips \ {trip}) \cup
                    {[trip EXCEPT !.destination = destination,
                                  !.start_date = isoformat(new_start),
                                  !.end_date = isoformat(new_end),
                                  !.travel_style = travel_style]}
             /\ itinerary' = adjusted.rows
             /\ day_items' = adjusted.items
             /\ seq' = [seq EXCEPT !.itinerary = adjusted.next]
             /\ last' = [answer("Trip updated.") EXCEPT
                            !.removed = adjusted.removed]
             /\ trip_stops' =
                    {x \in trip_stops :
                        \/ x.trip_id # trip_id
                        \/ /\ new_start <= parse_date(x.start_date)
                           /\ parse_date(x.end_date) <= new_end}
             /\ UNCHANGED <<budget_items, packing_items>>

edit_trip(trip_id, destination_raw, start_str, end_str, style_raw) ==
    IF ~TripExists(trip_id)
    THEN Reject(Answer("edit_trip", trip_id, "Trip not found."))
    ELSE
    LET trip == TripRow(trip_id)
        destination == strip(OrEmpty(destination_raw))
        travel_style == IF Truthy(style_raw) THEN style_raw ELSE "Flexible"
        new_start == parse_date(start_str)
        new_end == parse_date(end_str)
        old_start == parse_date(trip.start_date)
        old_end == parse_date(trip.end_date)
        adjusted == adjust_days(trip_id, new_start, new_end, old_start,
                        old_end)
        answer(flash) ==
            [Answer("edit_trip", trip_id, flash) EXCEPT !.before = trip]
    IN  IF ~Truthy(destination) \/ ~Truthy(start_str) \/ ~Truthy(end_str)
        THEN Reject(answer(
                 "Please provide destination, start date, and end date."))
        ELSE IF new_start = ValueError \/ new_end = ValueError
        THEN Reject(answer("Dates must be in YYYY-MM-DD format."))
        ELSE IF new_end < new_start
        THEN Reject(answer("End date cannot be before start date."))
        ELSE /\ trips' = (trips \ {trip}) \cup
                    {[trip EXCEPT !.destination = destination,
                                  !.start_date = isoformat(new_start),
                                  !.end_date = isoformat(new_end),
                                  !.travel_style = travel_style]}
             /\ itinerary' = adjusted.rows
             /\ day_items' = adjusted.items
             /\ seq' = [seq EXCEPT !.itinerary = adjusted.next]
             /\ last' = [answer("Trip updated.") EXCEPT
                            !.removed = adjusted.removed]
             /\ UNCHANGED <<trip_stops, budget_items, packing_items>>

(***************************************************************************)
(* POST /trip/<trip_id>/edit in two steps, for requests served at the same *)
(* time.  The first step is the SELECT of the trip row and the validation  *)
(* of the form: no transaction is open after it.  The second is the        *)
(* transaction from UPDATE trips to commit: SQLite gives the write lock to *)
(* one connection at a time, so the transactions of two requests follow    *)
(* one another, each reading the days as the other committed them, while   *)
(* old_start and old_end are those of the row read in the first step.      *)
(***************************************************************************)
edit_trip_read(client, trip_id, destination_raw, start_str, end_str, style_raw) ==
    LET destination == strip(OrEmpty(destination_raw))
        new_start == parse_date(start_str)
        new_end == parse_date(end_str)
        answer(flash) ==
            [Answer("edit_trip", trip_id, flash) EXCEPT
                !.before = TripRow(trip_id)]
    IN  IF ~TripExists(trip_id)
        THEN Reject(Answer("edit_trip", trip_id, "Trip not found."))
                 /\ UNCHANGED reading
        ELSE IF ~Truthy(destination) \/ ~Truthy(start_str)
                    \/ ~Truthy(end_str)
        THEN Reject(answer(
                 "Please provide destination, start date, and end date."))
                 /\ UNCHANGED reading
        ELSE IF new_start = ValueError \/ new_end = ValueError
        THEN Reject(answer("Dates must be in YYYY-MM-DD format."))
                 /\ UNCHANGED reading
        ELSE IF new_end < new_start
        THEN Reject(answer("End date cannot be before start date."))
                 /\ UNCHANGED reading
        ELSE /\ reading' = reading \cup
                    {[client |-> client, trip |-> TripRow(trip_id),
                      destination |-> destination,
                      new_start |-> new_start, new_end |-> new_end,
                      travel_style |-> IF Truthy(style_raw) THEN style_raw
                                       ELSE "Flexible"]}
             /\ UNCHANGED <<trips, itinerary, day_items, trip_stops,
                            budget_items, packing_items, seq, last>>

edit_trip_write(request) ==
    LET trip_id == request.trip.id
        adjusted == adjust_days(trip_id, request.new_start, request.new_end,
                        parse_date(request.trip.start_date),
                        parse_date(request.trip.end_date))
    IN  /\ request \in reading
        /\ trips' =
               { IF t.id = trip_id
                 THEN [t EXCEPT !.destination = request.destination,
                                !.start_date = isoformat(request.new_start),
                                !.end_date = isoformat(request.new_end),
                                !.travel_style = request.travel_style]
                 ELSE t : t \in trips }
        /\ itinerary' = adjusted.rows
        /\ day_items' = adjusted.items
        /\ seq' = [seq EXCEPT !.itinerary = adjusted.next]
        /\ last' = [Answer("edit_trip", trip_id, "Trip updated.") EXCEPT
                       !.before = request.trip,
                       !.removed = adjusted.removed]
        /\ reading' = reading \ {request}
        /\ UNCHANGED <<trip_stops, budget_items, packing_items>>

(***************************************************************************)
(* POST /trip/<trip_id>/delete                                             *)
(***************************************************************************)
delete_trip(trip_id) ==
    LET itinerary_ids == Ids(DaysOf(trip_id))
    IN  /\ day_items' = IF itinerary_ids # {}
                        THEN without_days(day_items, itinerary_ids)
                        ELSE day_items
        /\ itinerary' = {d \in itinerary : d.trip_id # trip_id}
        /\ budget_items' = {b \in budget_items : b.trip_id # trip_id}
        /\ trip_stops' = {s \in trip_stops : s.trip_id # trip_id}
        /\ trips' = {t \in trips : t.id # trip_id}
        /\ last' = Answer("delete_trip", trip_id, "Trip deleted.")
        /\ UNCHANGED <<packing_items, seq>>

(***************************************************************************)
(* CSV rows.  A file is the sequence of rows csv.DictReader yields: a row  *)
(* maps the seven column names to their text (None: the column is absent). *)
(***************************************************************************)
Categories == {"place", "restaurant", "hotel"}

TimesOfDay == {"morning", "afternoon", "evening"}

Meals == {"breakfast", "lunch", "dinner", "snack"}

\* The row loop's continue conditions.
ValidRow(row) ==
    /\ strip(OrEmpty(row.date)) # ""
    /\ strip(OrEmpty(row.name)) # ""
    /\ parse_date(strip(OrEmpty(row.date))) # ValueError

\* parse_selected without lower().
parse_selected_as_typed(selected) ==
    IF strip(OrEmpty(selected)) \in {"0", "false", "no", "n"}
    THEN 0 ELSE 1

parse_selected(selected) ==
    IF lower(strip(OrEmpty(selected))) \in {"0", "false", "no", "n"}
    THEN 0 ELSE 1

coerce_category(category) ==
    IF lower(strip(OrEmpty(category))) \in Categories
    THEN lower(strip(OrEmpty(category)))
    ELSE "place"

ParseRow(row) ==
    [date |-> parse_date(strip(OrEmpty(row.date))),
     name |-> strip(OrEmpty(row.name)),
     time_of_day |-> lower(strip(OrEmpty(row.time_of_day))),
     category |-> coerce_category(row.category),
     city |-> strip(OrEmpty(row.city)),
     meal |-> lower(strip(OrEmpty(row.meal))),
     selected |-> parse_selected(row.selected)]

parsed_rows(file) ==
    LET valid == SelectSeq(file, ValidRow)
    IN  [i \in 1..Len(valid) |-> ParseRow(valid[i])]

\* The row loop of import_trip_csv_into_trip, with its own parsing of the
\* selected cell.
into_trip_parse_selected(selected) ==
    IF lower(strip(OrEmpty(selected))) \in {"0", "false", "no", "n"}
    THEN 0 ELSE 1

into_trip_parsed_rows(file) ==
    LET valid == SelectSeq(file, ValidRow)
    IN  [i \in 1..Len(valid) |->
            [ParseRow(valid[i]) EXCEPT
                !.selected = into_trip_parse_selected(valid[i].selected)]]

\* The slot a parsed row's item gets.
effective_slot(row) ==
    IF row.category = "place" /\ row.time_of_day \in TimesOfDay
    THEN row.time_of_day
    ELSE IF row.category = "restaurant" /\ row.meal \in Meals
    THEN row.meal
    ELSE None

RowDates(rows) == {rows[i].date : i \in 1..Len(rows)}

\* city_dates: the non-blank cities in the order of their first row.
RECURSIVE city_names(_)
city_names(rows) ==
    IF rows = <<>> THEN <<>>
    ELSE LET front == city_names(SubSeq(rows, 1, Len(rows) - 1))
             city == rows[Len(rows)].city
         IN  IF city = "" \/ \E i \in 1..Len(front) : front[i] = city
             THEN front
             ELSE Append(front, city)

\* city_stops made to pass over a city the trip already has a stop for.
city_stops_unless_known(trip_id, rows, first_id) ==
    LET known == {x.name : x \in StopsOf(trip_id)}
        names == SelectSeq(city_names(rows), LAMBDA c : c \notin known)
    IN  { [id |-> first_id + (n - 1), trip_id |-> trip_id,
           name |-> names[n],
           start_date |-> isoformat(Min({rows[i].date :
                              i \in {j \in 1..Len(rows) :
                                         rows[j].city = names[n]}})),
           end_date |-> isoformat(Max({rows[i].date :
                              i \in {j \in 1..Len(rows) :
                                         rows[j].city = names[n]}}))]
          : n \in 1..Len(names) }

\* One trip_stops row per city, from its first to its last date.
city_stops(trip_id, rows, first_id) ==
    LET names == city_names(rows)
    IN  { [id |-> first_id + (n - 1), trip_id |-> trip_id,
           name |-> names[n],
           start_date |-> isoformat(Min({rows[i].date :
                              i \in {j \in 1..Len(rows) :
                                         rows[j].city = names[n]}})),
           end_date |-> isoformat(Max({rows[i].date :
                              i \in {j \in 1..Len(rows) :
                                         rows[j].city = names[n]}}))]
          : n \in 1..Len(names) }

\* day_by_date = {row["date"]: row for row in days}.get(date_key)
HasDay(days, date_key) == \E d \in days : d.date = date_key

day_by_date(days, date_key) ==
    CHOOSE d \in days :
        d.date = date_key /\ \A o \in days : o.date = date_key => o.id <= d.id

\* INSERT INTO day_items (itinerary_id, category, name, checked, slot)
NewItem(id, itinerary_id, category, name, checked, slot) ==
    [id |-> id, itinerary_id |-> itinerary_id, category |-> category,
     name |-> name, checked |-> checked, slot |-> slot, hidden |-> 0]

\* The item loop made to skip a row whose day already got an item of its
\* category and name.
RECURSIVE row_items_once(_, _, _)
row_items_once(rows, days, acc) ==
    IF rows = <<>> THEN acc
    ELSE LET row == Head(rows)
             date_key == isoformat(row.date)
         IN  IF \/ ~HasDay(days, date_key)
                \/ \E i \in acc.items :
                       /\ i.itinerary_id = day_by_date(days, date_key).id
                       /\ i.category = row.category
                       /\ i.name = row.name
             THEN row_items_once(Tail(rows), days, acc)
             ELSE row_items_once(Tail(rows), days,
                      [items |-> acc.items \cup
                           {NewItem(acc.next + 1,
                                    day_by_date(days, date_key).id,
                                    row.category, row.name, row.selected,
                                    effective_slot(row))},
                       next |-> acc.next + 1])

\* The item loop: one day_items row per parsed row whose date has a day.
\* acc holds the rows inserted so far and the table's id counter.
RECURSIVE row_items(_, _, _)
row_items(rows, days, acc) ==
    IF rows = <<>> THEN acc
    ELSE LET row == Head(rows)
             date_key == isoformat(row.date)
         IN  IF ~HasDay(days, date_key)
             THEN row_items(Tail(rows), days, acc)
             ELSE row_items(Tail(rows), days,
                      [items |-> acc.items \cup
                           {NewItem(acc.next + 1,
                                    day_by_date(days, date_key).id,
                                    row.category, row.name, row.selected,
                                    effective_slot(row))},
                       next |-> acc.next + 1])

(***************************************************************************)
(* POST /trips/import-csv.  source is the trip the file was exported from  *)
(* (0: none); the handler does not read it.                                *)
(***************************************************************************)
NoValidRows ==
    "No valid rows found in CSV. Expected headers: "
        \o "date,time_of_day,category,name,city,meal"

\* request.files.get("file"): the rows of the uploaded file, or no file.
Upload(rows) == [uploaded |-> TRUE, rows |-> rows]

NoUpload == [uploaded |-> FALSE, rows |-> <<>>]

import_trip_csv(destination_raw, style_raw, file, source) ==
    LET destination == strip(OrEmpty(destination_raw))
        travel_style == IF Truthy(style_raw) THEN style_raw ELSE "Flexible"
        rows == parsed_rows(file.rows)
        start_date == Min(RowDates(rows))
        end_date == Max(RowDates(rows))
        trip_id == seq.trips + 1
        days == RangeDays(trip_id, start_date, end_date, seq.itinerary + 1)
        stops == city_stops(trip_id, rows, seq.trip_stops + 1)
        added == row_items(rows, days,
                     [items |-> {}, next |-> seq.day_items])
        answer(id, flash) ==
            [Answer("import_trip_csv", id, flash) EXCEPT
                !.file = file.rows,
                !.source = source]
    IN  IF ~Truthy(destination) \/ ~file.uploaded
        THEN Reject(answer(0,
                 "Please provide a destination and choose a CSV file."))
        ELSE IF rows = <<>>
        THEN Reject(answer(0, NoValidRows \o "."))
        ELSE /\ trips' = trips \cup
                    {[id |-> trip_id, destination |-> destination,
                      start_date |-> isoformat(start_date),
                      end_date |-> isoformat(end_date),
                      travel_style |-> travel_style]}
             /\ itinerary' = itinerary \cup days
             /\ trip_stops' = trip_stops \cup stops
             /\ day_items' = day_items \cup added.items
             /\ seq' = [seq EXCEPT !.trips = trip_id,
                                   !.itinerary = @ + Cardinality(days),
                                   !.trip_stops = @ + Cardinality(stops),
                                   !.day_items = added.next]
             /\ last' = answer(trip_id, "Trip imported from CSV.")
             /\ UNCHANGED <<budget_items, packing_items>>

(***************************************************************************)
(* POST /trip/<trip_id>/import-csv                                         *)
(***************************************************************************)
\* in_range_rows without the comparison with the trip's dates.
in_range_rows_all(rows, trip_start, trip_end) == rows

in_range_rows(rows, trip_start, trip_end) ==
    LET InRange(r) == trip_start <= r.date /\ r.date <= trip_end
    IN  SelectSeq(rows, InRange)

import_trip_csv_into_trip(trip_id, file) ==
    LET answer(flash) ==
            [Answer("import_trip_csv_into_trip", trip_id, flash) EXCEPT
                !.file = file.rows,
                !.before = IF TripExists(trip_id) THEN TripRow(trip_id)
                           ELSE NoTrip]
    IN
    IF ~TripExists(trip_id)
    THEN Reject(answer("Trip not found."))
    ELSE
    LET trip == TripRow(trip_id)
        rows == into_trip_parsed_rows(file.rows)
        trip_start == parse_date(trip.start_date)
        trip_end == parse_date(trip.end_date)
        kept == in_range_rows(rows, trip_start, trip_end)
        stops == city_stops(trip_id, kept, seq.trip_stops + 1)
        added == row_items(kept, DaysOf(trip_id),
                     [items |-> {}, next |-> seq.day_items])
    IN  IF ~file.uploaded
        THEN Reject(answer("Please choose a CSV file."))
        ELSE IF rows = <<>>
        THEN Reject(answer(NoValidRows \o ",selected."))
        ELSE IF kept = <<>>
        THEN Reject(answer(
                 "CSV rows are all outside the current trip dates."))
        ELSE /\ trip_stops' = trip_stops \cup stops
             /\ day_items' = day_items \cup added.items
             /\ seq' = [seq EXCEPT !.trip_stops = @ + Cardinality(stops),
                                   !.day_items = added.next]
             /\ last' = answer("Trip updated from CSV.")
             /\ UNCHANGED <<trips, itinerary, budget_items, packing_items>>

(***************************************************************************)
(* GET /trip/<trip_id>/export-csv: the rows written after the header.      *)
(***************************************************************************)
\* location_by_date[date]: the name of the last stop, in ORDER BY
\* start_date, whose range holds the date; None when no stop does.
location_by_date(trip_id, date_str) ==
    LET stops == StopsOf(trip_id)
        ordered == OrderBy(stops,
                       [s \in stops |-> parse_date(s.start_date)])
        covering == {n \in 1..Len(ordered) :
                        /\ parse_date(ordered[n].start_date)
                               <= parse_date(date_str)
                        /\ parse_date(date_str)
                               <= parse_date(ordered[n].end_date)}
    IN  IF covering = {} THEN None ELSE ordered[Max(covering)].name

\* export_row without the meal column filled in.
export_row_no_meal(trip, day, item) ==
    [date |-> day.date,
     time_of_day |-> IF item.category = "place"
                        /\ OrEmpty(item.slot) \in TimesOfDay
                     THEN OrEmpty(item.slot) ELSE "",
     category |-> item.category,
     name |-> item.name,
     city |-> trip.destination,
     meal |-> "",
     selected |-> IF item.checked # 0 THEN "1" ELSE "0"]

export_row(trip, day, item) ==
    LET slot == OrEmpty(item.slot)
    IN  [date |-> day.date,
         time_of_day |-> IF item.category = "place" /\ slot \in TimesOfDay
                         THEN slot ELSE "",
         category |-> item.category,
         name |-> item.name,
         city |-> IF Truthy(location_by_date(trip.id, day.date))
                  THEN location_by_date(trip.id, day.date)
                  ELSE trip.destination,
         meal |-> IF item.category = "restaurant" /\ slot \in Meals
                  THEN slot ELSE "",
         selected |-> IF item.checked # 0 THEN "1" ELSE "0"]

Visible(items) == {i \in items : i.hidden = 0}

RECURSIVE Concat(_)
Concat(seqs) ==
    IF seqs = <<>> THEN <<>> ELSE Head(seqs) \o Concat(Tail(seqs))

export_trip_csv(trip_id) ==
    LET trip == TripRow(trip_id)
        days == OrderByDayNumber(DaysOf(trip_id))
        day_rows(day) ==
            LET items == OrderById(Visible(
                             {i \in day_items : i.itinerary_id = day.id}))
            IN  [n \in 1..Len(items) |-> export_row(trip, day, items[n])]
    IN  Concat([n \in 1..Len(days) |-> day_rows(days[n])])

(***************************************************************************)
(* POST /trip/<trip_id>/itinerary.  form maps the keys of the request to   *)
(* their text; request.form.get gives None for a key that is not there.    *)
(***************************************************************************)
Get(form, key) == IF key \in DOMAIN form THEN form[key] ELSE None

\* (request.form.get(key) or "").strip() or None
StripOrNone(value) ==
    IF strip(OrEmpty(value)) = "" THEN None ELSE strip(OrEmpty(value))

\* form_slot without the test of the item's category.
form_slot_of_any(form, category, item_id) ==
    LET place_raw == lower(strip(OrEmpty(
                         Get(form, <<"place_slot", item_id>>))))
        restaurant_raw == lower(strip(OrEmpty(
                              Get(form, <<"restaurant_slot", item_id>>))))
    IN  IF place_raw \in TimesOfDay THEN place_raw
        ELSE IF restaurant_raw \in Meals THEN restaurant_raw
        ELSE None

form_slot(form, category, item_id) ==
    LET place_raw == lower(strip(OrEmpty(
                         Get(form, <<"place_slot", item_id>>))))
        restaurant_raw == lower(strip(OrEmpty(
                              Get(form, <<"restaurant_slot", item_id>>))))
    IN  IF category = "place" /\ place_raw \in TimesOfDay
        THEN place_raw
        ELSE IF category = "restaurant" /\ restaurant_raw \in Meals
        THEN restaurant_raw
        ELSE None

\* UPDATE day_items SET checked = ?, slot = ? WHERE id = ?
form_item(form, item) ==
    [item EXCEPT
        !.checked = IF Get(form, <<"item_checked", item.id>>) = "on"
                    THEN 1 ELSE 0,
        !.slot = form_slot(form, item.category, item.id)]

\* The items typed in for one day: place, restaurant, hotel, in this order.
typed_items(form, day_id, first_id) ==
    LET typed == SelectSeq(
                     << <<"place",
                          strip(OrEmpty(Get(form, <<"new_place", day_id>>)))>>,
                        <<"restaurant",
                          strip(OrEmpty(
                              Get(form, <<"new_restaurant", day_id>>)))>>,
                        <<"hotel",
                          strip(OrEmpty(Get(form, <<"new_hotel", day_id>>)))>>
                     >>,
                     LAMBDA t : t[2] # "")
    IN  { NewItem(first_id + (n - 1), day_id, typed[n][1], typed[n][2], 1,
                  None) : n \in 1..Len(typed) }

\* The day loop's inserts.  acc holds the rows inserted and the id counter.
RECURSIVE typed_for_days(_, _, _)
typed_for_days(form, days, acc) ==
    IF days = <<>> THEN acc
    ELSE LET new == typed_items(form, Head(days).id, acc.next + 1)
         IN  typed_for_days(form, Tail(days),
                 [items |-> acc.items \cup new,
                  next |-> acc.next + Cardinality(new)])

update_itinerary(trip_id, form) ==
    LET days == DaysOf(trip_id)
        day_ids == Ids(days)
        added == typed_for_days(form, OrderByDayNumber(days),
                     [items |-> {}, next |-> seq.day_items])
    IN  /\ itinerary' =
               { IF d.id \in day_ids
                 THEN [d EXCEPT !.slots =
                          [f \in SlotFields |->
                              StripOrNone(Get(form, <<f, d.id>>))]]
                 ELSE d : d \in itinerary }
        /\ day_items' =
               { IF i.itinerary_id \in day_ids THEN form_item(form, i)
                 ELSE i : i \in day_items } \cup added.items
        /\ seq' = [seq EXCEPT !.day_items = added.next]
        /\ last' = Answer("update_itinerary", trip_id, "Itinerary updated.")
        /\ UNCHANGED <<trips, trip_stops, budget_items, packing_items>>

(***************************************************************************)
(* POST /trip/<trip_id>/day-item/<item_id>/hide                            *)
(***************************************************************************)
\* hide_day_item without its test of the trip.
hide_day_item_of_any_trip(trip_id, item_id) ==
    /\ day_items' =
           { IF i.id = item_id THEN [i EXCEPT !.hidden = 1] ELSE i :
                 i \in day_items }
    /\ last' = Answer("hide_day_item", trip_id, "")
    /\ UNCHANGED <<trips, itinerary, trip_stops, budget_items,
                   packing_items, seq>>

hide_day_item(trip_id, item_id) ==
    /\ day_items' =
           { IF i.id = item_id /\ i.itinerary_id \in Ids(DaysOf(trip_id))
             THEN [i EXCEPT !.hidden = 1]
             ELSE i : i \in day_items }
    /\ last' = Answer("hide_day_item", trip_id, "")
    /\ UNCHANGED <<trips, itinerary, trip_stops, budget_items,
                   packing_items, seq>>

(***************************************************************************)
(* POST /trip/<trip_id>/stops                                              *)
(***************************************************************************)
\* add_trip_stop without the comparison with the trip's dates.
add_trip_stop_anywhere(trip_id, name_raw, start_str, end_str) ==
    IF ~TripExists(trip_id)
    THEN Reject(Answer("add_trip_stop", trip_id, "Trip not found."))
    ELSE
    LET trip == TripRow(trip_id)
        name == strip(OrEmpty(name_raw))
        stop_start == parse_date(start_str)
        stop_end == parse_date(end_str)
        trip_start == parse_date(trip.start_date)
        trip_end == parse_date(trip.end_date)
    IN  IF ~Truthy(name) \/ ~Truthy(start_str) \/ ~Truthy(end_str)
        THEN Reject(Answer("add_trip_stop", trip_id,
                 "Please provide a city/location and start/end dates for the stop."))
        ELSE IF ValueError \in {stop_start, stop_end, trip_start, trip_end}
        THEN Reject(Answer("add_trip_stop", trip_id,
                 "Stop dates must be in YYYY-MM-DD format."))
        ELSE IF stop_end < stop_start
        THEN Reject(Answer("add_trip_stop", trip_id,
                 "Stop end date cannot be before its start date."))
        ELSE /\ trip_stops' = trip_stops \cup
                    {[id |-> seq.trip_stops + 1, trip_id |-> trip_id,
                      name |-> name,
                      start_date |-> isoformat(stop_start),
                      end_date |-> isoformat(stop_end)]}
             /\ seq' = [seq EXCEPT !.trip_stops = @ + 1]
             /\ last' = Answer("add_trip_stop", trip_id, "Trip stop added.")
             /\ UNCHANGED <<trips, itinerary, day_items, budget_items,
                            packing_items>>

add_trip_stop(trip_id, name_raw, start_str, end_str) ==
    IF ~TripExists(trip_id)
    THEN Reject(Answer("add_trip_stop", trip_id, "Trip not found."))
    ELSE
    LET trip == TripRow(trip_id)
        name == strip(OrEmpty(name_raw))
        stop_start == parse_date(start_str)
        stop_end == parse_date(end_str)
        trip_start == parse_date(trip.start_date)
        trip_end == parse_date(trip.end_date)
    IN  IF ~Truthy(name) \/ ~Truthy(start_str) \/ ~Truthy(end_str)
        THEN Reject(Answer("add_trip_stop", trip_id,
                 "Please provide a city/location and start/end dates for the stop."))
        ELSE IF ValueError \in {stop_start, stop_end, trip_start, trip_end}
        THEN Reject(Answer("add_trip_stop", trip_id,
                 "Stop dates must be in YYYY-MM-DD format."))
        ELSE IF stop_end < stop_start
        THEN Reject(Answer("add_trip_stop", trip_id,
                 "Stop end date cannot be before its start date."))
        ELSE IF stop_start < trip_start \/ stop_end > trip_end
        THEN Reject(Answer("add_trip_stop", trip_id,
                 "Stop dates must fall within the overall trip dates."))
        ELSE /\ trip_stops' = trip_stops \cup
                    {[id |-> seq.trip_stops + 1, trip_id |-> trip_id,
                      name |-> name,
                      start_date |-> isoformat(stop_start),
                      end_date |-> isoformat(stop_end)]}
             /\ seq' = [seq EXCEPT !.trip_stops = @ + 1]
             /\ last' = Answer("add_trip_stop", trip_id, "Trip stop added.")
             /\ UNCHANGED <<trips, itinerary, day_items, budget_items,
                            packing_items>>

(***************************************************************************)
(* POST /trip/<trip_id>/budget.  Amounts are whole numbers of the          *)
(* currency; AmountTexts is the text float() accepts, with its value.      *)
(***************************************************************************)
AmountTexts == { <<"120", 120>>, <<"-40", -40>>, <<"0", 0>> }

parse_amount(value) ==
    IF ~Truthy(value) THEN 0
    ELSE IF \E a \in AmountTexts : a[1] = value
    THEN (CHOOSE a \in AmountTexts : a[1] = value)[2]
    ELSE 0

add_budget_item(trip_id, label_raw, estimated_cost, actual_cost) ==
    LET label == strip(OrEmpty(label_raw))
    IN  IF ~Truthy(label)
        THEN Reject(Answer("add_budget_item", trip_id,
                 "Please provide a label for the budget item."))
        ELSE /\ budget_items' = budget_items \cup
                    {[id |-> seq.budget_items + 1, trip_id |-> trip_id,
                      label |-> label,
                      estimated_cost |-> parse_amount(estimated_cost),
                      actual_cost |-> parse_amount(actual_cost)]}
             /\ seq' = [seq EXCEPT !.budget_items = @ + 1]
             /\ last' = Answer("add_budget_item", trip_id,
                            "Budget item added.")
             /\ UNCHANGED <<trips, itinerary, day_items, trip_stops,
                            packing_items>>

(***************************************************************************)
(* POST /trip/<trip_id>/budget/update.  form maps <<"actual", id>> to the  *)
(* text typed for the item.                                                *)
(***************************************************************************)
update_budget_items(trip_id, form) ==
    /\ budget_items' =
           { IF item.trip_id = trip_id
             THEN [item EXCEPT !.actual_cost =
                      parse_amount(Get(form, <<"actual", item.id>>))]
             ELSE item : item \in budget_items }
    /\ last' = Answer("update_budget_items", trip_id,
                      "Actual amounts updated.")
    /\ UNCHANGED <<trips, itinerary, day_items, trip_stops, packing_items,
                   seq>>

(***************************************************************************)
(* POST /trip/<trip_id>/budget/<item_id>/delete                            *)
(***************************************************************************)
delete_budget_item(trip_id, item_id) ==
    /\ budget_items' = {item \in budget_items :
                           ~(item.trip_id = trip_id /\ item.id = item_id)}
    /\ last' = Answer("delete_budget_item", trip_id, "Budget item removed.")
    /\ UNCHANGED <<trips, itinerary, day_items, trip_stops, packing_items,
                   seq>>

(***************************************************************************)
(* POST /trip/<trip_id>/packing                                            *)
(***************************************************************************)
update_packing_items(trip_id, form) ==
    LET new_label == strip(OrEmpty(Get(form, <<"new_packing_label", 0>>)))
        new_category ==
            IF strip(OrEmpty(Get(form, <<"new_packing_category", 0>>))) = ""
            THEN "Custom"
            ELSE strip(OrEmpty(Get(form, <<"new_packing_category", 0>>)))
        updated(row) ==
            [row EXCEPT
                !.checked = IF <<"packing_checked", row.id>> \in DOMAIN form
                            THEN 1 ELSE 0,
                !.label = IF strip(OrEmpty(
                                 Get(form, <<"packing_label", row.id>>))) = ""
                          THEN row.label
                          ELSE strip(OrEmpty(
                                   Get(form, <<"packing_label", row.id>>)))]
    IN  /\ packing_items' =
               { IF r.trip_id = trip_id THEN updated(r) ELSE r :
                     r \in packing_items }
               \cup
               ( IF new_label # ""
                 THEN {[id |-> seq.packing_items + 1, trip_id |-> trip_id,
                        category |-> new_category, label |-> new_label,
                        checked |-> 0]}
                 ELSE {} )
        /\ seq' = [seq EXCEPT !.packing_items =
                       IF new_label # "" THEN @ + 1 ELSE @]
        /\ last' = Answer("update_packing_items", trip_id,
                       "Packing list updated.")
        /\ UNCHANGED <<trips, itinerary, day_items, trip_stops,
                       budget_items>>

(***************************************************************************)
(* Suggestions.  A trip here is what the builders read of it: a            *)
(* destination and a travel style.  An external search answers with an     *)
(* HTTP error (ok = FALSE: raise_for_status raises) or with a status and   *)
(* its results.                                                            *)
(***************************************************************************)
\* word in text, for the lower-cased texts of the model.
Mentions ==
    { <<"tokyo", "tokyo">>, <<"charleston", "charleston">>,
      <<"foodie", "food">>, <<"foodie", "foodie">>,
      <<"hotel niwa tokyo", "tokyo">>, <<"oslo inn", "oslo">> }

HasWord(text, word) == text = word \/ <<text, word>> \in Mentions

offline_day_suggestions(trip) ==
    LET destination == lower(OrEmpty(trip.destination))
    IN  IF HasWord(destination, "charleston")
        THEN [place |-> << "Rainbow Row & historic downtown walk",
                           "Waterfront Park & Pineapple Fountain" >>,
              restaurant |-> << "Husk (modern Southern)",
                    "Fleet Landing Restaurant & Bar (waterfront seafood)" >>,
              hotel |-> << "The Dewberry Charleston", "Emeline" >>]
        ELSE IF HasWord(destination, "tokyo")
        THEN [place |-> << "Senso-ji Temple in Asakusa",
                           "Meiji Shrine & Harajuku walk",
                           "Shibuya Crossing evening stroll" >>,
              restaurant |-> << "Ichiran Ramen (solo ramen booths)",
                                "Gyukatsu Motomura (beef cutlet)" >>,
              hotel |-> << "Hotel Niwa Tokyo", "Shinjuku Granbell Hotel" >>]
        ELSE [place |->
                  << "Old town or historic center in " \o trip.destination,
                     "City park or viewpoint in " \o trip.destination >>,
              restaurant |->
                  << "Highly rated casual restaurant near your stay in "
                         \o trip.destination,
                     "Bakery or cafe popular with locals in "
                         \o trip.destination >>,
              hotel |->
                  << "Mid-range hotel close to transit in "
                         \o trip.destination,
                     "Guesthouse or small inn with good reviews in "
                         \o trip.destination >>]

SuggestionCategories == <<"place", "restaurant", "hotel">>

\* search(): the names of the first results of one response.
SearchLimit == 5

RECURSIVE result_names(_)
result_names(results) ==
    IF results = <<>> THEN <<>>
    ELSE LET item == Head(results)
             address == IF Truthy(item.formatted_address)
                        THEN item.formatted_address
                        ELSE item.vicinity
         IN  IF Truthy(item.name) /\ Truthy(address)
             THEN <<item.name \o " (" \o address \o ")">>
                      \o result_names(Tail(results))
             ELSE IF Truthy(item.name)
             THEN <<item.name>> \o result_names(Tail(results))
             ELSE result_names(Tail(results))

search(response) ==
    IF response.status \notin {"OK", "ZERO_RESULTS"} THEN <<>>
    ELSE result_names(SubSeq(response.results, 1,
             IF Len(response.results) < SearchLimit
             THEN Len(response.results) ELSE SearchLimit))

\* The value returned or the exception raised.
Returned(value) == [raised |-> FALSE, value |-> value]

Raised == [raised |-> TRUE, value |-> <<>>]

\* responses gives the answer to each of the three searches.
build_day_suggestions_from_google_places(trip, responses) ==
    IF \E c \in DOMAIN responses : ~responses[c].ok
    THEN Raised
    ELSE LET offline == offline_day_suggestions(trip)
             found == [c \in DOMAIN responses |-> search(responses[c])]
         IN  Returned([c \in DOMAIN responses |->
                          IF found[c] = <<>> THEN offline[c] ELSE found[c]])

\* api_key is os.environ.get("GOOGLE_PLACES_API_KEY").
build_day_suggestions(trip, api_key, responses) ==
    IF ~Truthy(api_key)
    THEN Returned(offline_day_suggestions(trip))
    ELSE LET external ==
                 build_day_suggestions_from_google_places(trip, responses)
         IN  IF external.raised
             THEN Returned(offline_day_suggestions(trip))
             ELSE external

(***************************************************************************)
(* POST /trip/<trip_id>/suggest-places.  lookup gives, for a location, the *)
(* answers of the external searches made for it.                           *)
(***************************************************************************)
\* The (category, name) pairs of one day's suggestions, in insertion order.
suggested_pairs(suggestions) ==
    Concat([c \in 1..Len(SuggestionCategories) |->
               [n \in 1..Len(suggestions[SuggestionCategories[c]]) |->
                   <<SuggestionCategories[c],
                     suggestions[SuggestionCategories[c]][n]>>]])

\* The inner loops made to insert without looking for an existing item.
RECURSIVE seed_day_again(_, _, _, _, _)
seed_day_again(pairs, day_id, existing, items, next) ==
    IF pairs = <<>> THEN [items |-> items, next |-> next]
    ELSE seed_day_again(Tail(pairs), day_id, existing,
             items \cup {NewItem(next + 1, day_id, Head(pairs)[1],
                                 Head(pairs)[2], 0, None)},
             next + 1)

\* The inner loops: insert a pair unless the day has an item of that
\* category and name, stored before (existing) or inserted by this
\* request (items); next is the last id given.
RECURSIVE seed_day(_, _, _, _, _)
seed_day(pairs, day_id, existing, items, next) ==
    IF pairs = <<>> THEN [items |-> items, next |-> next]
    ELSE LET category == Head(pairs)[1]
             name == Head(pairs)[2]
         IN  IF \E i \in existing \cup items :
                    /\ i.itinerary_id = day_id
                    /\ i.category = category
                    /\ i.name = name
             THEN seed_day(Tail(pairs), day_id, existing, items, next)
             ELSE seed_day(Tail(pairs), day_id, existing,
                      items \cup {NewItem(next + 1, day_id, category, name,
                                          0, None)},
                      next + 1)

RECURSIVE seed_days(_, _, _, _, _, _)
seed_days(days, trip, api_key, lookup, items, next) ==
    IF days = <<>> THEN [items |-> items, next |-> next]
    ELSE LET day == Head(days)
             stop_name == location_by_date(trip.id, day.date)
             location == IF Truthy(stop_name) THEN stop_name
                         ELSE trip.destination
             pseudo_trip == [destination |-> location,
                             travel_style |-> trip.travel_style]
             day_suggestions ==
                 build_day_suggestions(pseudo_trip, api_key,
                                       lookup[location]).value
             seeded == seed_day(suggested_pairs(day_suggestions), day.id,
                                day_items, items, next)
         IN  seed_days(Tail(days), trip, api_key, lookup, seeded.items,
                       seeded.next)

suggest_places(trip_id, api_key, lookup) ==
    IF ~TripExists(trip_id) \/ DaysOf(trip_id) = {}
    THEN Reject(Answer("suggest_places", trip_id, "Trip not found."))
    ELSE LET added == seed_days(OrderByDayNumber(DaysOf(trip_id)),
                          TripRow(trip_id), api_key, lookup, {},
                          seq.day_items)
         IN  /\ day_items' = day_items \cup added.items
             /\ seq' = [seq EXCEPT !.day_items = added.next]
             /\ last' = Answer("suggest_places", trip_id,
                    "Sample places, restaurants, and hotels added for each day. Tick the ones you like.")
             /\ UNCHANGED <<trips, itinerary, trip_stops, budget_items,
                            packing_items>>

(***************************************************************************)
(* GET /trip/<trip_id>: what the page is rendered from.                    *)
(***************************************************************************)
\* The orders in which a SELECT ... ORDER BY key may return rows: SQL
\* leaves the order of rows with equal keys open.
Fetched(rows, k) ==
    { f \in [1..Cardinality(rows) -> rows] :
          /\ \A i, j \in DOMAIN f : i < j => f[i] # f[j] /\ k[f[i]] <= k[f[j]] }

FetchedByStartDate(stops) ==
    Fetched(stops, [x \in stops |-> parse_date(x.start_date)])

\* The stop loop with setdefault for the assignment: the first stop of a
\* date stays.
RECURSIVE stop_locations_first(_, _)
stop_locations_first(stops, mapping) ==
    IF stops = <<>> THEN mapping
    ELSE LET stop == Head(stops)
             dates == {isoformat(d) :
                          d \in parse_date(stop.start_date)
                                    ..parse_date(stop.end_date)}
         IN  stop_locations_first(Tail(stops),
                 [k \in DOMAIN mapping \cup dates |->
                     IF k \in DOMAIN mapping THEN mapping[k]
                     ELSE stop.name])

\* location_by_date[current.isoformat()] = stop["name"], for each stop in
\* the order fetched and each date from its start to its end.
RECURSIVE stop_locations(_, _)
stop_locations(stops, mapping) ==
    IF stops = <<>> THEN mapping
    ELSE LET stop == Head(stops)
             dates == {isoformat(d) :
                          d \in parse_date(stop.start_date)
                                    ..parse_date(stop.end_date)}
         IN  stop_locations(Tail(stops),
                 [k \in DOMAIN mapping \cup dates |->
                     IF k \in dates THEN stop.name ELSE mapping[k]])

EmptyDict == [k \in {} |-> None]

\* dict.get(key)
DictGet(dict, key) == IF key \in DOMAIN dict THEN dict[key] ELSE None

\* The query of trip_detail for the items of the page, without its test
\* of the hidden column.
page_items_all(day_ids) == {i \in day_items : i.itinerary_id \in day_ids}

\* SELECT ... FROM day_items WHERE itinerary_id IN (...) AND (hidden IS
\* NULL OR hidden = 0)
page_items(day_ids) ==
    {i \in day_items : i.itinerary_id \in day_ids /\ i.hidden = 0}

\* items_by_day.get(day["id"], {"place": [], "restaurant": [], "hotel": []})
per_day_items(rows, day) ==
    [c \in Categories |->
        OrderById({i \in rows : i.itinerary_id = day.id /\ i.category = c})]

\* urllib.parse.quote_plus, for the pieces the URLs are joined from: it
\* encodes character by character, so the encoding of a joined text is the
\* joined encodings.  Texts of letters and digits stay as they are.
QuotePlus ==
    { <<", ", "%2C+">>, <<"|", "%7C">>,
      <<"Hotel Niwa Tokyo", "Hotel+Niwa+Tokyo">>,
      <<"Shinjuku Granbell Hotel", "Shinjuku+Granbell+Hotel">>,
      <<"Senso-ji Temple in Asakusa", "Senso-ji+Temple+in+Asakusa">>,
      <<"Meiji Shrine & Harajuku walk", "Meiji+Shrine+%26+Harajuku+walk">>,
      <<"Shibuya Crossing evening stroll",
        "Shibuya+Crossing+evening+stroll">>,
      <<"Ichiran Ramen (solo ramen booths)",
        "Ichiran+Ramen+%28solo+ramen+booths%29">>,
      <<"Gyukatsu Motomura (beef cutlet)",
        "Gyukatsu+Motomura+%28beef+cutlet%29">>,
      <<"Oslo Inn", "Oslo+Inn">> }

quote_plus(text) ==
    IF \E q \in QuotePlus : q[1] = text
    THEN (CHOOSE q \in QuotePlus : q[1] = text)[2]
    ELSE text

\* "|".join(waypoints) under quote_plus, a waypoint being name, city.
RECURSIVE quoted_waypoints(_, _)
quoted_waypoints(items, city_text) ==
    IF items = <<>> THEN ""
    ELSE quote_plus(Head(items).name) \o quote_plus(", ")
             \o quote_plus(city_text)
             \o (IF Tail(items) = <<>> THEN ""
                 ELSE quote_plus("|")
                          \o quoted_waypoints(Tail(items), city_text))

\* build_day_directions_url with the activities put before the breakfast
\* spots.
build_day_directions_url_places_first(trip, day, day_items_by_category, city) ==
    LET city_text == IF Truthy(city) THEN city ELSE trip.destination
        hotels == SelectSeq(day_items_by_category["hotel"],
                            LAMBDA item : item.checked # 0)
        hotel_location == quote_plus(hotels[1].name) \o quote_plus(", ")
                              \o quote_plus(city_text)
        breakfast_spots ==
            SelectSeq(day_items_by_category["restaurant"],
                LAMBDA item : /\ item.checked # 0
                              /\ lower(OrEmpty(item.slot)) = "breakfast")
        activities == SelectSeq(day_items_by_category["place"],
                                LAMBDA item : item.checked # 0)
        waypoints == activities \o breakfast_spots
    IN  IF hotels = <<>> THEN ""
        ELSE IF waypoints = <<>> THEN ""
        ELSE "https://www.google.com/maps/dir/?api=1"
                 \o "&origin=" \o hotel_location
                 \o "&destination=" \o hotel_location
                 \o "&waypoints=" \o quoted_waypoints(waypoints, city_text)
                 \o "&travelmode=driving"

build_day_directions_url(trip, day, day_items_by_category, city) ==
    LET city_text == IF Truthy(city) THEN city ELSE trip.destination
        hotels == SelectSeq(day_items_by_category["hotel"],
                            LAMBDA item : item.checked # 0)
        hotel_location == quote_plus(hotels[1].name) \o quote_plus(", ")
                              \o quote_plus(city_text)
        breakfast_spots ==
            SelectSeq(day_items_by_category["restaurant"],
                LAMBDA item : /\ item.checked # 0
                              /\ lower(OrEmpty(item.slot)) = "breakfast")
        activities == SelectSeq(day_items_by_category["place"],
                                LAMBDA item : item.checked # 0)
        waypoints == breakfast_spots \o activities
    IN  IF hotels = <<>> THEN ""
        ELSE IF waypoints = <<>> THEN ""
        ELSE "https://www.google.com/maps/dir/?api=1"
                 \o "&origin=" \o hotel_location
                 \o "&destination=" \o hotel_location
                 \o "&waypoints=" \o quoted_waypoints(waypoints, city_text)
                 \o "&travelmode=driving"

\* int(round(n / 6.0 * 100)) for n in 0..6: no n gives a half to round.
percent_of_six(n) == (200 * n + 6) \div 12

\* completion without its test of the item's checked flag.
completion_of_listed(day, day_items_by_category) ==
    LET filled == {f \in {"morning_description", "afternoon_description",
                          "evening_description"} :
                      strip(OrEmpty(day.slots[f])) # ""}
        restaurants == day_items_by_category["restaurant"]
        picked == {m \in {"breakfast", "lunch", "dinner"} :
                      \E n \in 1..Len(restaurants) :
                          lower(OrEmpty(restaurants[n].slot)) = m}
    IN  [slots_filled |-> Cardinality(filled), total_slots |-> 3,
         meals_picked |-> Cardinality(picked), total_meals |-> 3,
         percent |-> percent_of_six(Cardinality(filled)
                                        + Cardinality(picked))]

\* Completion stats of a day: time-of-day slots filled and meals picked.
completion(day, day_items_by_category) ==
    LET filled == {f \in {"morning_description", "afternoon_description",
                          "evening_description"} :
                      strip(OrEmpty(day.slots[f])) # ""}
        restaurants == day_items_by_category["restaurant"]
        picked == {m \in {"breakfast", "lunch", "dinner"} :
                      \E n \in 1..Len(restaurants) :
                          /\ lower(OrEmpty(restaurants[n].slot)) = m
                          /\ restaurants[n].checked # 0}
    IN  [slots_filled |-> Cardinality(filled), total_slots |-> 3,
         meals_picked |-> Cardinality(picked), total_meals |-> 3,
         percent |-> percent_of_six(Cardinality(filled)
                                        + Cardinality(picked))]

\* hotels_filtered without its test of the location.
hotels_filtered_anywhere(location_name, day_items_by_category) ==
    day_items_by_category["hotel"]

\* The hotels of a day, those naming the day's location when it has one.
hotels_filtered(location_name, day_items_by_category) ==
    LET hotels == day_items_by_category["hotel"]
    IN  IF Truthy(location_name)
        THEN SelectSeq(hotels,
                 LAMBDA h : HasWord(lower(OrEmpty(h.name)),
                                    lower(location_name)))
        ELSE hotels

(***************************************************************************)
(* The weather forecast.  An external answer has ok = FALSE when           *)
(* raise_for_status raises.  A forecast block has its date and a whole     *)
(* temperature, each a sequence of one value or of none when the block     *)
(* does not give it, and a description.                                    *)
(***************************************************************************)
ForecastDays == 7

FirstDays(days) ==
    SubSeq(days, 1, IF Len(days) < ForecastDays THEN Len(days)
                    ELSE ForecastDays)

offline_weather_forecast(trip, days) ==
    [n \in 1..Len(FirstDays(days)) |->
        [date |-> days[n].date,
         summary |-> "Forecast placeholder (connect to real API later)"]]

\* str.capitalize() for the descriptions of the model.
Capitalized == { <<"light rain", "Light rain">>, <<"SNOW", "Snow">> }

capitalize(text) ==
    IF \E c \in Capitalized : c[1] = text
    THEN (CHOOSE c \in Capitalized : c[1] = text)[2]
    ELSE text

\* The summary of the blocks of one date.
date_summary(blocks) ==
    LET temps == UNION {{blocks[n].temp[t] : t \in 1..Len(blocks[n].temp)} :
                           n \in 1..Len(blocks)}
        described == SelectSeq(blocks,
                         LAMBDA b : capitalize(OrEmpty(b.description)) # "")
        first == IF described = <<>> THEN ""
                 ELSE capitalize(described[1].description)
        range == IF temps = {} THEN ""
                 ELSE ToString(Max(temps)) \o " / " \o ToString(Min(temps))
                          \o "C"
    IN  IF first # "" /\ range # "" THEN first \o "  " \o range
        ELSE IF first # "" THEN first
        ELSE IF range # "" THEN range
        ELSE "Forecast unavailable"

build_weather_from_openweather(trip, days, geo, weather) ==
    IF ~geo.ok THEN Raised
    ELSE IF geo.data = <<>> THEN Returned(offline_weather_forecast(trip, days))
    ELSE IF geo.data[1].lat = None \/ geo.data[1].lon = None
    THEN Returned(offline_weather_forecast(trip, days))
    ELSE IF ~weather.ok THEN Raised
    ELSE LET dated == SelectSeq(weather.blocks, LAMBDA b : b.dt # <<>>)
             of(date_str) ==
                 SelectSeq(dated, LAMBDA b : isoformat(b.dt[1]) = date_str)
         IN  Returned(
                 [n \in 1..Len(FirstDays(days)) |->
                     [date |-> days[n].date,
                      summary |-> IF of(days[n].date) = <<>>
                                  THEN "Forecast unavailable"
                                  ELSE date_summary(of(days[n].date))]])

\* build_weather_stub without its except clause.
build_weather_stub_unguarded(trip, days, api_key, geo, weather) ==
    IF ~Truthy(api_key) THEN Returned(offline_weather_forecast(trip, days))
    ELSE LET external == build_weather_from_openweather(trip, days, geo,
                                                        weather)
         IN  IF external.raised THEN Raised
             ELSE IF external.value # <<>> THEN external
             ELSE Returned(offline_weather_forecast(trip, days))

\* api_key is os.environ.get("OPENWEATHER_API_KEY").
build_weather_stub(trip, days, api_key, geo, weather) ==
    IF ~Truthy(api_key) THEN Returned(offline_weather_forecast(trip, days))
    ELSE LET external == build_weather_from_openweather(trip, days, geo,
                                                        weather)
         IN  IF ~external.raised /\ external.value # <<>>
             THEN external
             ELSE Returned(offline_weather_forecast(trip, days))

(***************************************************************************)
(* The Foodie Twist section.                                               *)
(***************************************************************************)
offline_foodie_highlights(trip) ==
    LET destination == lower(OrEmpty(trip.destination))
    IN  IF HasWord(destination, "charleston")
        THEN [dishes_to_try |-> << "Shrimp & grits", "She-crab soup",
                                   "Fried green tomatoes" >>,
              hidden_gems |-> << "Local shrimp shack away from the main tourist strip" >>,
              grocery_list |-> << "Fresh shrimp", "Grits", "Butter",
                                  "Garlic" >>]
        ELSE IF HasWord(destination, "tokyo")
        THEN [dishes_to_try |-> << "Tsukemen ramen", "Tonkatsu",
                                   "Matcha dessert" >>,
              hidden_gems |-> << "Standing sushi bar near a train station",
                                 "Tiny ramen shop with 10 seats" >>,
              grocery_list |-> << "Rice", "Soy sauce", "Miso paste",
                                  "Seasonal vegetables" >>]
        ELSE [dishes_to_try |->
                  << "One hearty local dish in " \o trip.destination >>,
              hidden_gems |-> << "Ask a local barista or waiter where they eat on their day off." >>,
              grocery_list |-> << "3 seasonal vegetables",
                                  "Local cheese or protein",
                                  "Bread or rice" >>]

\* entry.split("(", 1)[0].strip() for the entries of the model; an entry
\* without a parenthesis is left as it is.
BeforeParen ==
    { <<"Louvre (Paris)", "Louvre">>,
      <<"Ichiran Ramen (solo ramen booths)", "Ichiran Ramen">>,
      <<"Gyukatsu Motomura (beef cutlet)", "Gyukatsu Motomura">>,
      <<"Husk (modern Southern)", "Husk">>,
      <<"Fleet Landing Restaurant & Bar (waterfront seafood)",
        "Fleet Landing Restaurant & Bar">> }

before_paren(entry) ==
    IF \E b \in BeforeParen : b[1] = entry
    THEN (CHOOSE b \in BeforeParen : b[1] = entry)[2]
    ELSE entry

\* The names of the entries, each once, in order.
RECURSIVE entry_names(_, _)
entry_names(entries, names) ==
    IF entries = <<>> THEN names
    ELSE LET name == before_paren(Head(entries))
         IN  entry_names(Tail(entries),
                 IF name # "" /\ \A n \in 1..Len(names) : names[n] # name
                 THEN Append(names, name) ELSE names)

\* api_key is os.environ.get("GOOGLE_PLACES_API_KEY").
build_foodie_highlights(trip, api_key, responses) ==
    IF ~Truthy(api_key) THEN Returned(offline_foodie_highlights(trip))
    ELSE LET external ==
                 build_day_suggestions_from_google_places(trip, responses)
             offline == offline_foodie_highlights(trip)
         IN  IF external.raised THEN Returned(offline)
             ELSE LET dishes == entry_names(external.value.restaurant, <<>>)
                      hidden == entry_names(external.value.place, <<>>)
                  IN  Returned(
                          [dishes_to_try |-> IF dishes # <<>> THEN dishes
                                             ELSE offline.dishes_to_try,
                           hidden_gems |-> IF hidden # <<>> THEN hidden
                                           ELSE offline.hidden_gems,
                           grocery_list |->
                               IF offline.grocery_list # <<>>
                               THEN offline.grocery_list
                               ELSE << "Fresh fruit or local snacks",
                                       "Bottled water or drinks",
                                       "Breakfast basics for the room" >>])

(***************************************************************************)
(* The packing list.  rows is packing_items as the connection of the       *)
(* request sees it, next the last id given.                                *)
(***************************************************************************)
(***************************************************************************)
(* POST /trip/<trip_id>/generate-itinerary                                 *)
(***************************************************************************)
Descriptions ==
    {"morning_description", "afternoon_description", "evening_description"}

\* The three texts of a style, each ending with the destination.
StyleTexts(style) ==
    IF HasWord(style, "food") \/ HasWord(style, "foodie")
    THEN << "Start your day at a local cafe in ",
            "Take a walking food tour and sample street food in ",
            "Dinner at a neighborhood restaurant known for regional "
                \o "specialties in " >>
    ELSE IF HasWord(style, "budget")
    THEN << "Explore a free park, garden, or public space in ",
            "Visit a low-cost museum or market and people-watch in ",
            "Find a casual, affordable spot for dinner and stroll the "
                \o "city center in " >>
    ELSE IF HasWord(style, "family")
    THEN << "Family-friendly attraction or playground in ",
            "Interactive museum, zoo, or aquarium suited for kids in ",
            "Relaxed dinner and early evening walk through a safe, "
                \o "lively area in " >>
    ELSE IF HasWord(style, "luxury")
    THEN << "Slow breakfast at a high-end cafe or in-hotel dining in ",
            "Spa treatment or private guided tour around ",
            "Tasting-menu dinner or rooftop bar experience in " >>
    ELSE << "Walk through a central neighborhood in ",
            "Visit one landmark or museum that interests you in ",
            "Try a recommended local restaurant and explore nearby "
                \o "streets in " >>

\* The suggestions by day_number.
build_ai_style_itinerary(trip, days) ==
    LET texts == StyleTexts(lower(OrEmpty(trip.travel_style)))
        ending == trip.destination \o "."
    IN  [n \in {day.day_number : day \in days} |->
            [morning_title |-> "Morning",
             morning_description |-> texts[1] \o ending,
             afternoon_title |-> "Afternoon",
             afternoon_description |-> texts[2] \o ending,
             evening_title |-> "Evening",
             evening_description |-> texts[3] \o ending]]

\* generate_itinerary made to write the suggestion over what a day has.
generate_itinerary_overwriting(trip_id) ==
    LET days == DaysOf(trip_id)
        suggestions == build_ai_style_itinerary(TripRow(trip_id), days)
    IN  IF ~TripExists(trip_id) \/ days = {}
        THEN Reject(Answer("generate_itinerary", trip_id, "Trip not found."))
        ELSE /\ itinerary' =
                    { IF day \in days
                      THEN [day EXCEPT !.slots =
                               [f \in SlotFields |->
                                   IF f \in Descriptions
                                   THEN suggestions[day.day_number][f]
                                   ELSE day.slots[f]]]
                      ELSE day : day \in itinerary }
             /\ last' = Answer("generate_itinerary", trip_id,
                   "Sample itinerary generated based on your travel style.")
             /\ UNCHANGED <<trips, day_items, trip_stops, budget_items,
                            packing_items, seq>>

generate_itinerary(trip_id) ==
    LET days == DaysOf(trip_id)
        suggestions == build_ai_style_itinerary(TripRow(trip_id), days)
    IN  IF ~TripExists(trip_id) \/ days = {}
        THEN Reject(Answer("generate_itinerary", trip_id, "Trip not found."))
        ELSE /\ itinerary' =
                    { IF day \in days
                      THEN [day EXCEPT !.slots =
                               [f \in SlotFields |->
                                   IF f \in Descriptions
                                          /\ ~Truthy(day.slots[f])
                                   THEN suggestions[day.day_number][f]
                                   ELSE day.slots[f]]]
                      ELSE day : day \in itinerary }
             /\ last' = Answer("generate_itinerary", trip_id,
                   "Sample itinerary generated based on your travel style.")
             /\ UNCHANGED <<trips, day_items, trip_stops, budget_items,
                            packing_items, seq>>

\* date.month: every date of the calendar of the model is in January.
month(date) == IF date \in Dates THEN 1 ELSE ValueError

\* The suggested (category, label) pairs, in the order of the dict.
build_packing_list(trip, days) ==
    LET destination == lower(OrEmpty(trip.destination))
        style == lower(OrEmpty(trip.travel_style))
        first_date == parse_date(trip.start_date)
    IN  << <<"Essentials", "Passport / ID">>,
           <<"Essentials", "Phone + charger">>,
           <<"Essentials", "Wallet + cards">>,
           <<"Essentials", "Medications">> >>
        \o (IF HasWord(destination, "seattle") \/ HasWord(destination, "rain")
            THEN << <<"Weather", "Light raincoat or waterproof jacket">> >>
            ELSE <<>>)
        \o (IF month(first_date) \in {12, 1, 2}
            THEN << <<"Clothing", "Warm layers and a hat">> >>
            ELSE IF month(first_date) \in {6, 7, 8}
            THEN << <<"Clothing", "Lightweight clothing and sunscreen">> >>
            ELSE <<>>)
        \o (IF HasWord(style, "food") \/ HasWord(style, "foodie")
            THEN << <<"Foodie Tools", "Reusable tote bag for markets">>,
                    <<"Foodie Tools", "Small notebook for food notes">> >>
            ELSE <<>>)
        \o (IF HasWord(destination, "beach") \/ HasWord(destination, "island")
            THEN << <<"Activities", "Swimsuit">>,
                    <<"Activities", "Flip-flops">>,
                    <<"Activities", "Beach towel">> >>
            ELSE <<>>)

\* The seeding loop inserting every suggested pair, missing or not.
RECURSIVE seed_packing_always(_, _, _, _, _)
seed_packing_always(pairs, trip_id, existing_by_key, rows, next) ==
    IF pairs = <<>> THEN [rows |-> rows, next |-> next]
    ELSE seed_packing_always(Tail(pairs), trip_id, existing_by_key,
             rows \cup {[id |-> next + 1, trip_id |-> trip_id,
                         category |-> Head(pairs)[1],
                         label |-> Head(pairs)[2], checked |-> 0]},
             next + 1)

\* The seeding loop: insert the pairs that are not keys of
\* existing_by_key, which is read once before the loop.
RECURSIVE seed_packing(_, _, _, _, _)
seed_packing(pairs, trip_id, existing_by_key, rows, next) ==
    IF pairs = <<>> THEN [rows |-> rows, next |-> next]
    ELSE IF Head(pairs) \in existing_by_key
    THEN seed_packing(Tail(pairs), trip_id, existing_by_key, rows, next)
    ELSE seed_packing(Tail(pairs), trip_id, existing_by_key,
             rows \cup {[id |-> next + 1, trip_id |-> trip_id,
                         category |-> Head(pairs)[1],
                         label |-> Head(pairs)[2], checked |-> 0]},
             next + 1)

\* The rows and the last id after the seeding, and the rows of the trip
\* grouped by category (their order by label is not kept).
get_packing_items_for_trip(trip, days, rows, next) ==
    LET existing_rows == {r \in rows : r.trip_id = trip.id}
        existing_by_key == {<<r.category, r.label>> : r \in existing_rows}
        seeded == seed_packing(build_packing_list(trip, days), trip.id,
                               existing_by_key, rows, next)
        reloaded == {r \in seeded.rows : r.trip_id = trip.id}
    IN  [rows |-> seeded.rows,
         next |-> seeded.next,
         by_category |->
             [c \in {r.category : r \in reloaded} |->
                 {r \in reloaded : r.category = c}]]

(***************************************************************************)
(* GET /trip/<trip_id>.  env is what the request finds outside the         *)
(* database: the two credentials, the answers of the place searches for a  *)
(* location, and the answers of the geocoder and of the forecast.  The     *)
(* page is kept in last, without its budget section.  The packing items    *)
(* the request inserts are never committed and are gone when its           *)
(* connection is closed, so no table changes.                              *)
(***************************************************************************)
\* The Foodie Twist of each stop's city, or of the destination when the
\* trip has no stop.
RECURSIVE foodie_by_city(_, _, _, _)
foodie_by_city(stops, trip, env, highlights) ==
    IF stops = <<>> THEN highlights
    ELSE LET city == strip(OrEmpty(Head(stops).name))
         IN  IF city = "" \/ city \in DOMAIN highlights
             THEN foodie_by_city(Tail(stops), trip, env, highlights)
             ELSE foodie_by_city(Tail(stops), trip, env,
                      (city :> build_foodie_highlights(
                                   [trip EXCEPT !.destination = city],
                                   env.places_key,
                                   env.lookup[city]).value)
                          @@ highlights)

Page(trip, days, stops, rows, env) ==
    LET locations == stop_locations(stops, EmptyDict)
        of(day) == per_day_items(rows, day)
        each == {days[n] : n \in 1..Len(days)}
    IN  [trip |-> trip,
         days |-> days,
         stops |-> stops,
         location_by_date |-> locations,
         items_by_day |-> [d \in each |-> of(d)],
         directions_by_day |->
             [d \in {x \in each :
                        build_day_directions_url(trip, x, of(x),
                            DictGet(locations, x.date)) # ""} |->
                 build_day_directions_url(trip, d, of(d),
                     DictGet(locations, d.date))],
         completion_by_day |-> [d \in each |-> completion(d, of(d))],
         hotels_filtered_by_day |->
             [d \in each |->
                 hotels_filtered(DictGet(locations, d.date), of(d))],
         weather_forecast |->
             build_weather_stub(trip, days, env.weather_key, env.geo,
                                env.weather).value,
         packing_items_by_category |->
             get_packing_items_for_trip(trip, days, packing_items,
                                        seq.packing_items).by_category,
         foodie_highlights_by_city |->
             IF stops # <<>>
             THEN foodie_by_city(stops, trip, env, EmptyDict)
             ELSE (trip.destination :>
                      build_foodie_highlights(trip, env.places_key,
                          env.lookup[trip.destination]).value)]

\* stops is the order in which the stops were fetched.
trip_detail(trip_id, stops, env) ==
    IF ~TripExists(trip_id)
    THEN Reject(Answer("trip_detail", trip_id, "Trip not found."))
    ELSE /\ stops \in FetchedByStartDate(StopsOf(trip_id))
         /\ last' = ("page" :> Page(TripRow(trip_id),
                                    OrderByDayNumber(DaysOf(trip_id)),
                                    stops,
                                    page_items(Ids(DaysOf(trip_id))),
                                    env))
                        @@ Answer("trip_detail", trip_id, "")
         /\ UNCHANGED <<trips, itinerary, day_items, trip_stops,
                        budget_items, packing_items, seq>>

(***************************************************************************)
(* GET /trips: the planning status of every trip, and the trips that end   *)
(* today or later apart from those that ended before.                      *)
(***************************************************************************)
\* SELECT itinerary_id, category, checked FROM day_items WHERE
\* itinerary_id IN (...) AND (hidden IS NULL OR hidden = 0)
list_items(day_ids) ==
    {i \in day_items : i.itinerary_id \in day_ids /\ i.hidden = 0}

\* planning_status without its test of the item's checked flag.
planning_status_of_listed(days, items) ==
    LET described(day) ==
            \E f \in {"morning_description", "afternoon_description",
                      "evening_description"} :
                strip(OrEmpty(day.slots[f])) # ""
        has_activity == {day \in days :
                            \/ described(day)
                            \/ \E i \in items : i.itinerary_id = day.id}
        days_with_activity == Cardinality(has_activity)
        total_days == Cardinality(days)
    IN  IF days = {} THEN "Planning"
        ELSE IF days_with_activity = 0 THEN "Planning"
        ELSE IF 2 * days_with_activity < total_days THEN "Planning"
        ELSE IF 10 * days_with_activity < 9 * total_days
        THEN "Mostly planned"
        ELSE "Ready"

planning_status(days, items) ==
    LET described(day) ==
            \E f \in {"morning_description", "afternoon_description",
                      "evening_description"} :
                strip(OrEmpty(day.slots[f])) # ""
        has_activity == {day \in days :
                            \/ described(day)
                            \/ \E i \in items : /\ i.checked # 0
                                                /\ i.itinerary_id = day.id}
        days_with_activity == Cardinality(has_activity)
        total_days == Cardinality(days)
    IN  IF days = {} THEN "Planning"
        ELSE IF days_with_activity = 0 THEN "Planning"
        ELSE IF 2 * days_with_activity < total_days THEN "Planning"
        ELSE IF 10 * days_with_activity < 9 * total_days
        THEN "Mostly planned"
        ELSE "Ready"

\* rows is the order in which the trips were fetched.
list_trips(rows, today) ==
    /\ rows \in Fetched(trips, [t \in trips |-> parse_date(t.start_date)])
    /\ last' = [status_by_trip |->
                    [id \in Ids(trips) |->
                        planning_status(DaysOf(id),
                                        list_items(Ids(DaysOf(id))))],
                upcoming_trips |->
                    SelectSeq(rows,
                        LAMBDA t : parse_date(t.end_date) >= today),
                past_trips |->
                    SelectSeq(rows,
                        LAMBDA t : parse_date(t.end_date) < today)]
                   @@ Answer("list_trips", 0, "")
    /\ UNCHANGED <<trips, itinerary, day_items, trip_stops, budget_items,
                   packing_items, seq>>

(***************************************************************************)
(* GET /trip/<trip_id>/export-csv: the answer, with the rows of the file.  *)
(***************************************************************************)
export_trip_csv_response(trip_id) ==
    IF ~TripExists(trip_id)
    THEN Reject(Answer("export_trip_csv", trip_id, "Trip not found."))
    ELSE /\ last' = [rows |-> export_trip_csv(trip_id)]
                        @@ Answer("export_trip_csv", trip_id, "")
         /\ UNCHANGED <<trips, itinerary, day_items, trip_stops,
                        budget_items, packing_items, seq>>

(***************************************************************************)
(* The requests of the model.                                              *)
(***************************************************************************)
TripIds == 1..MaxTrips

\* A handler that runs from its first statement to its commit with no
\* other request in between leaves the requests in flight as they are.
Serial == UNCHANGED reading

\* The requests run one after the other and the id counters stay within
\* the bounds a specification gives them.
Within(caps) ==
    /\ Serial
    /\ \A table \in DOMAIN seq : seq'[table] <= caps[table]

\* The trip forms submitted: every range of the calendar under two
\* destinations, and one with dates without leading zeros.
Ranges == {r \in (1..MaxRangeDate) \X (1..MaxRangeDate) : r[1] <= r[2]}

TripForms ==
    { [destination |-> m[1], start_date |-> isoformat(r[1]),
       end_date |-> isoformat(r[2]), travel_style |-> m[2]] :
          m \in {<<"Tokyo", "">>, <<" Oslo ", "Foodie">>}, r \in Ranges }
    \cup
    { [destination |-> "Tokyo", start_date |-> "2024-1-1",
       end_date |-> "2024-1-2", travel_style |-> ""] }

\* The rows of the uploaded files.
CsvRow(date, time_of_day, category, name, city, meal, selected) ==
    [date |-> date, time_of_day |-> time_of_day, category |-> category,
     name |-> name, city |-> city, meal |-> meal, selected |-> selected]

\* What a browser sends for the itinerary page as it stands: every field
\* with its stored text, every shown item with its checkbox and its slot.
\* A hidden item is not on the page.
shown_form(trip_id) ==
    LET days == DaysOf(trip_id)
        items == Visible(ItemsOf(trip_id))
        keys == {<<f, d.id>> : f \in SlotFields, d \in days}
                \cup {<<"item_checked", i.id>> :
                         i \in {j \in items : j.checked # 0}}
                \cup {<<"place_slot", i.id>> :
                         i \in {j \in items : j.category = "place"}}
                \cup {<<"restaurant_slot", i.id>> :
                         i \in {j \in items : j.category = "restaurant"}}
        day(id) == CHOOSE d \in days : d.id = id
        item(id) == CHOOSE i \in items : i.id = id
    IN  [k \in keys |->
            IF k[1] \in SlotFields THEN OrEmpty(day(k[2]).slots[k[1]])
            ELSE IF k[1] = "item_checked" THEN "on"
            ELSE OrEmpty(item(k[2]).slot)]

\* The text typed into the nine fields of one day.
typed_day(day_id) ==
    [k \in {<<f, day_id>> : f \in SlotFields} |->
        IF k[1] = "morning_description" THEN " walk " ELSE k[1]]

NewTrip ==
    \E form \in TripForms :
        new_trip(form.destination, form.start_date, form.end_date,
                 form.travel_style)

EditTrip ==
    \E trip_id \in TripIds, form \in TripForms :
        edit_trip(trip_id, form.destination, form.start_date,
                  form.end_date, form.travel_style)

DeleteTrip == \E trip_id \in TripIds : delete_trip(trip_id)

\* The page as shown, with one day's nine fields typed and a place added.
WriteItinerary ==
    \E trip_id \in TripIds :
        \E day \in DaysOf(trip_id) :
            update_itinerary(trip_id,
                typed_day(day.id) @@ (<<"new_place", day.id>> :> " Louvre")
                    @@ shown_form(trip_id))

(***************************************************************************)
(* Spec: the life of one trip, created from the form or from a file, its   *)
(* range edited, its days written to.                                      *)
(***************************************************************************)
MaxEditTrips == 1

EditFiles ==
    { << CsvRow("2024-01-01", "morning", "place", "Louvre", "Oslo", "", "1"),
         CsvRow("2024-01-03", "", "hotel", "Husk", "", "", "No") >> }

ImportEditFile ==
    \E file \in EditFiles : import_trip_csv("Tokyo", "", Upload(file), 0)

EditWithin ==
    Within([trips |-> MaxEditTrips, itinerary |-> MaxDays,
            day_items |-> MaxItems, trip_stops |-> MaxStops,
            budget_items |-> MaxBudget, packing_items |-> MaxPacking])

Next ==
    \/ seq.trips < MaxEditTrips /\ NewTrip /\ EditWithin
    \/ seq.trips < MaxEditTrips /\ ImportEditFile /\ EditWithin
    \/ EditTrip /\ EditWithin
    \/ WriteItinerary /\ EditWithin
    \/ DeleteTrip /\ EditWithin

Spec == Init /\ [][Next]_vars

(***************************************************************************)
(* SpecDelete: two short trips with a written day, a stop, a budget item   *)
(* and a packing item between them, and their deletion.                    *)
(***************************************************************************)
ShortTripForms ==
    { [destination |-> "Tokyo", start_date |-> isoformat(1),
       end_date |-> isoformat(e), travel_style |-> ""] : e \in {1, 2} }

NewShortTrip ==
    \E form \in ShortTripForms :
        new_trip(form.destination, form.start_date, form.end_date,
                 form.travel_style)

AddTripStop ==
    \E trip_id \in TripIds :
        add_trip_stop(trip_id, " Oslo", isoformat(1), isoformat(1))

AddBudgetItem ==
    \E trip_id \in TripIds : add_budget_item(trip_id, "Taxi", "120", "")

\* The packing page as shown (every row with its label and checkbox) and
\* a new label typed in.
AddPackingItem ==
    \E trip_id \in TripIds :
        LET rows == {r \in packing_items : r.trip_id = trip_id}
            keys == {<<"packing_label", r.id>> : r \in rows}
                    \cup {<<"packing_checked", r.id>> :
                             r \in {x \in rows : x.checked # 0}}
            row(id) == CHOOSE r \in rows : r.id = id
            shown == [k \in keys |->
                         IF k[1] = "packing_label" THEN row(k[2]).label
                         ELSE "on"]
        IN  update_packing_items(trip_id,
                (<<"new_packing_label", 0>> :> "Adapter") @@ shown)

DeleteWithin ==
    Within([trips |-> MaxTrips, itinerary |-> MaxDays,
            day_items |-> MaxItems, trip_stops |-> MaxStops,
            budget_items |-> MaxBudget, packing_items |-> MaxPacking])

NextDelete ==
    \/ seq.trips < MaxTrips /\ NewShortTrip /\ DeleteWithin
    \/ seq.day_items < MaxItems /\ WriteItinerary /\ DeleteWithin
    \/ seq.trip_stops < MaxStops /\ AddTripStop /\ DeleteWithin
    \/ seq.budget_items < MaxBudget /\ AddBudgetItem /\ DeleteWithin
    \/ seq.packing_items < MaxPacking /\ AddPackingItem /\ DeleteWithin
    \/ DeleteTrip /\ DeleteWithin

SpecDelete == Init /\ [][NextDelete]_vars

(***************************************************************************)
(* SpecCsv: trips made from uploaded files, items hidden and added, and    *)
(* a trip's export uploaded again as a new trip.                           *)
(***************************************************************************)
MaxCsvTrips == 2
MaxCsvDays == 6
MaxCsvItems == 5
MaxCsvStops == 4

\* Uploaded files: rows in and out of order with a gap between their
\* dates, padded and cased cells, an unknown category, a slot that is not
\* one of its category, rows without a name or with a date that does not
\* parse, and the same row twice.
CsvFiles ==
    { << CsvRow("2024-01-03", "", "HOTEL", "Husk", "", "", "No"),
         CsvRow("2024-01-01", "Morning", "place", " Louvre", " Oslo", "",
                "1") >>,
      << CsvRow(" 2024-01-02 ", "", "Restaurant ", "Husk", "", "Lunch",
                None),
         CsvRow("2024-01-02", "", "place", "   ", "Oslo", "", "1"),
         CsvRow("2024-1-1", "Lunch", "Spa", "Louvre", "", "", "0") >>,
      << CsvRow("tomorrow", "", "place", "Louvre", "", "", "1"),
         CsvRow("", "", "hotel", "Husk", "", "", "1") >>,
      << CsvRow("2024-01-02", "", "place", "Louvre", "Oslo", "", "0"),
         CsvRow("2024-01-02", "", "place", "Louvre", "Oslo", "", "0") >> }

ImportFile ==
    \E file \in CsvFiles :
        import_trip_csv(" Oslo ", "", Upload(file), 0)

\* The page as shown, with dinner chosen for every restaurant on it and a
\* restaurant added to the first day.
AddRestaurant ==
    \E trip_id \in TripIds :
        \E day \in {d \in DaysOf(trip_id) : d.day_number = 1} :
            LET shown == shown_form(trip_id)
                chosen == [k \in {x \in DOMAIN shown :
                                     x[1] = "restaurant_slot"} |-> "Dinner"]
            IN  update_itinerary(trip_id,
                    (<<"new_restaurant", day.id>> :> "Husk ")
                        @@ chosen @@ shown)

HideDayItem ==
    \E trip_id \in TripIds :
        \E item \in Visible(ItemsOf(trip_id)) :
            hide_day_item(trip_id, item.id)

\* The file export_trip_csv writes for a trip, uploaded as a new trip.
RoundTrip ==
    \E t \in trips :
        import_trip_csv("Tokyo", "", Upload(export_trip_csv(t.id)), t.id)

CsvWithin ==
    Within([trips |-> MaxCsvTrips, itinerary |-> MaxCsvDays,
            day_items |-> MaxCsvItems, trip_stops |-> MaxCsvStops,
            budget_items |-> MaxBudget, packing_items |-> MaxPacking])

NextCsv ==
    \/ ImportFile /\ CsvWithin
    \/ AddRestaurant /\ CsvWithin
    \/ HideDayItem /\ CsvWithin
    \/ RoundTrip /\ CsvWithin

SpecCsv == Init /\ [][NextCsv]_vars

(***************************************************************************)
(* SpecMerge: one trip, a stop and restaurants added by hand, and files    *)
(* merged into it, the same file more than once.                           *)
(***************************************************************************)
MaxMergeTrips == 1
MaxMergeItems == 6
MaxMergeStops == 3

MergeTripForms ==
    { [destination |-> "Tokyo", start_date |-> isoformat(r[1]),
       end_date |-> isoformat(r[2]), travel_style |-> ""] :
          r \in {<<1, 2>>, <<2, 2>>} }

NewMergeTrip ==
    \E form \in MergeTripForms :
        new_trip(form.destination, form.start_date, form.end_date,
                 form.travel_style)

\* Merged files: a city with a row inside and a row outside the trip's
\* dates, rows all outside them, the same place twice with a row without
\* a city, and a file without a valid row.
MergeFiles ==
    { << CsvRow("2024-01-02", "Morning", "place", "Louvre", " Oslo", "",
                "1"),
         CsvRow("2024-01-03", "", "hotel", "Husk", "Oslo", "", "No") >>,
      << CsvRow("2024-01-03", "", "place", "Louvre", "Oslo", "", "1") >>,
      << CsvRow("2024-01-02", "", "place", "Louvre", "Oslo", "", "0"),
         CsvRow("2024-01-01", "", "Restaurant ", "Husk", "", "Lunch",
                None),
         CsvRow("2024-01-02", "", "place", "Louvre", " Oslo ", "", "0") >>,
      << CsvRow("tomorrow", "", "place", "Louvre", "Oslo", "", "1") >> }

MergeFile ==
    \E trip_id \in 1..MaxMergeTrips, file \in MergeFiles :
        import_trip_csv_into_trip(trip_id, Upload(file))

AddMergeStop ==
    \E trip_id \in 1..MaxMergeTrips :
        add_trip_stop(trip_id, " Oslo", isoformat(2), isoformat(2))

MergeWithin ==
    Within([trips |-> MaxMergeTrips, itinerary |-> MaxDays,
            day_items |-> MaxMergeItems, trip_stops |-> MaxMergeStops,
            budget_items |-> MaxBudget, packing_items |-> MaxPacking])

NextMerge ==
    \/ NewMergeTrip /\ MergeWithin
    \/ AddMergeStop /\ MergeWithin
    \/ AddRestaurant /\ MergeWithin
    \/ MergeFile /\ MergeWithin

SpecMerge == Init /\ [][NextMerge]_vars

(***************************************************************************)
(* SpecSuggest: one trip from the form or from a file, a stop for its      *)
(* second day, suggestions seeded offline and from external searches,      *)
(* slots chosen, restaurants typed in, items hidden.                       *)
(***************************************************************************)
MaxSuggestTrips == 1
MaxSuggestItems == 14

MaxHidden == 1

SuggestTripForms ==
    { [destination |-> m[1], start_date |-> isoformat(1),
       end_date |-> isoformat(m[2]), travel_style |-> "Foodie"] :
          m \in {<<"Tokyo", 2>>, <<" Oslo ", 1>>} }

NewSuggestTrip ==
    \E form \in SuggestTripForms :
        new_trip(form.destination, form.start_date, form.end_date,
                 form.travel_style)

\* A hotel row with a time of day and a meal, an unknown category with a
\* time of day, a restaurant with both.
SuggestFiles ==
    { << CsvRow("2024-01-01", "Morning", "HOTEL", "Husk", "", "Dinner", "1"),
         CsvRow("2024-01-01", "Evening", "Spa", "Louvre", "", "Lunch", "0"),
         CsvRow("2024-01-02", "Morning", "Restaurant ", "Husk", "", "Lunch",
                "1") >> }

ImportSuggestFile ==
    \E file \in SuggestFiles :
        import_trip_csv("Tokyo", "", Upload(file), 0)

AddSuggestStop ==
    \E trip_id \in 1..MaxSuggestTrips :
        add_trip_stop(trip_id, " Oslo", isoformat(2), isoformat(2))

\* The page as shown with, for every item on it whatever its category,
\* both slot selectors sent.
SlotChoices ==
    { <<"Morning", "Dinner">>, <<"Lunch", "evening">> }

ChooseSlots ==
    \E trip_id \in 1..MaxSuggestTrips, choice \in SlotChoices :
        LET items == Visible(ItemsOf(trip_id))
            keys == {<<"place_slot", i.id>> : i \in items}
                    \cup {<<"restaurant_slot", i.id>> : i \in items}
            chosen == [k \in keys |->
                          IF k[1] = "place_slot" THEN choice[1]
                          ELSE choice[2]]
        IN  /\ items # {}
            /\ update_itinerary(trip_id, chosen @@ shown_form(trip_id))

\* The lowest item on the page is hidden.
HideFirstItem ==
    \E trip_id \in 1..MaxSuggestTrips :
        LET items == Visible(ItemsOf(trip_id))
        IN  /\ items # {}
            /\ Cardinality(ItemsOf(trip_id) \ items) < MaxHidden
            /\ hide_day_item(trip_id, Min(Ids(items)))

\* Answers of the external searches.
SearchResult(name, formatted_address, vicinity) ==
    [name |-> name, formatted_address |-> formatted_address,
     vicinity |-> vicinity]

SearchResponse(ok, status, results) ==
    [ok |-> ok, status |-> status, results |-> results]

\* Places found (one of them twice, one without a name), no restaurant,
\* a hotel without an address.
SearchesFound ==
    [place |-> SearchResponse(TRUE, "OK",
                   << SearchResult("Louvre", "Paris", None),
                      SearchResult("Louvre", None, "Paris"),
                      SearchResult(None, "Paris", None) >>),
     restaurant |-> SearchResponse(TRUE, "ZERO_RESULTS", <<>>),
     hotel |-> SearchResponse(TRUE, "OK",
                   << SearchResult("Husk", None, None) >>)]

\* The restaurant search fails.
SearchesFailed ==
    [SearchesFound EXCEPT
        !.restaurant = SearchResponse(FALSE, "", <<>>)]

\* Every search is denied.
SearchesDenied ==
    [c \in DOMAIN SearchesFound |->
        SearchResponse(TRUE, "REQUEST_DENIED", <<>>)]

Locations == {"Tokyo", "Oslo"}

\* Without the credential; with it, the searches answering or one of them
\* failing for every location; with it, Oslo's searches answering and
\* Tokyo's denied.
SuggestLookups ==
    { <<None, [l \in Locations |-> SearchesFound]>>,
      <<"key", [l \in Locations |-> SearchesFound]>>,
      <<"key", [l \in Locations |-> SearchesFailed]>>,
      <<"key", [l \in Locations |->
                   IF l = "Oslo" THEN SearchesFound ELSE SearchesDenied]>> }

SuggestPlaces ==
    \E trip_id \in 1..MaxSuggestTrips, env \in SuggestLookups :
        suggest_places(trip_id, env[1], env[2])

SuggestWithin ==
    Within([trips |-> MaxSuggestTrips, itinerary |-> MaxDays,
            day_items |-> MaxSuggestItems, trip_stops |-> MaxStops,
            budget_items |-> MaxBudget, packing_items |-> MaxPacking])

NextSuggest ==
    \/ NewSuggestTrip /\ SuggestWithin
    \/ ImportSuggestFile /\ SuggestWithin
    \/ seq.trip_stops < MaxStops /\ AddSuggestStop /\ SuggestWithin
    \/ SuggestPlaces /\ SuggestWithin
    \/ ChooseSlots /\ SuggestWithin
    \/ AddRestaurant /\ SuggestWithin
    \/ HideFirstItem /\ SuggestWithin

SpecSuggest == Init /\ [][NextSuggest]_vars

(***************************************************************************)
(* SpecSelected: one-day trips from the form and from one-row files, and   *)
(* one-row files merged into them, over the texts of the selected cell.    *)
(***************************************************************************)
MaxSelectedTrips == 2
MaxSelectedItems == 3

\* None: the file has no selected column.
SelectedCells ==
    { "0", "false", "no", "n", " No ", "FALSE", "N", " 0", "", "   ", None,
      "1", "Yes", "off", "00", "nope", "f" }

SelectedFiles ==
    { << CsvRow("2024-01-01", "", "place", "Louvre", "", "", cell) >> :
          cell \in SelectedCells }

NewSelectedTrip == new_trip("Tokyo", isoformat(1), isoformat(1), "")

ImportSelected ==
    \E file \in SelectedFiles :
        import_trip_csv("Tokyo", "", Upload(file), 0)

MergeSelected ==
    \E trip_id \in 1..MaxSelectedTrips, file \in SelectedFiles :
        /\ TripExists(trip_id)
        /\ import_trip_csv_into_trip(trip_id, Upload(file))

SelectedWithin ==
    Within([trips |-> MaxSelectedTrips, itinerary |-> MaxDays,
            day_items |-> MaxSelectedItems, trip_stops |-> MaxStops,
            budget_items |-> MaxBudget, packing_items |-> MaxPacking])

NextSelected ==
    \/ NewSelectedTrip /\ SelectedWithin
    \/ ImportSelected /\ SelectedWithin
    \/ MergeSelected /\ SelectedWithin

SpecSelected == Init /\ [][NextSelected]_vars

(***************************************************************************)
(* SpecStops: one trip, its range edited, stops asked for with good and    *)
(* bad names and dates, and its page read without credentials.             *)
(***************************************************************************)
MaxStopsTrips == 1
MaxStopsDays == 4
MaxStopsStops == 2

StopsTripForms ==
    { [destination |-> "Tokyo", start_date |-> isoformat(r[1]),
       end_date |-> isoformat(r[2]), travel_style |-> "Foodie"] :
          r \in {<<1, 3>>, <<2, 3>>} }

NewStopsTrip ==
    \E form \in StopsTripForms :
        new_trip(form.destination, form.start_date, form.end_date,
                 form.travel_style)

EditStopsTrip ==
    \E form \in StopsTripForms :
        edit_trip(1, form.destination, form.start_date, form.end_date,
                  form.travel_style)

\* The stop forms, as <<name, start_date, end_date>>: five with a name and
\* two dates in order, then a blank name, an empty and a missing date, a
\* date that is none, and an end before the start.
StopForms ==
    { <<" Oslo", isoformat(1), isoformat(2)>>,
      <<"Tokyo", isoformat(2), isoformat(2)>>,
      <<" Oslo", isoformat(2), isoformat(3)>>,
      <<"Tokyo", isoformat(3), isoformat(3)>>,
      <<"Tokyo", isoformat(1), isoformat(3)>>,
      <<"   ", isoformat(1), isoformat(1)>>,
      <<" Oslo", "", isoformat(1)>>,
      <<" Oslo", isoformat(1), None>>,
      <<"Tokyo", "tomorrow", isoformat(2)>>,
      <<"Tokyo", isoformat(3), isoformat(2)>> }

AddAnyStop ==
    \E form \in StopForms : add_trip_stop(1, form[1], form[2], form[3])

\* No credential is configured.
Offline ==
    [places_key |-> None, weather_key |-> None,
     lookup |-> [l \in Locations |-> SearchesDenied],
     geo |-> [ok |-> FALSE], weather |-> [ok |-> FALSE]]

ReadStopsPage ==
    \E stops \in FetchedByStartDate(StopsOf(1)) :
        trip_detail(1, stops, Offline)

StopsWithin ==
    Within([trips |-> MaxStopsTrips, itinerary |-> MaxStopsDays,
            day_items |-> MaxItems, trip_stops |-> MaxStopsStops,
            budget_items |-> MaxBudget, packing_items |-> MaxPacking])

NextStops ==
    \/ NewStopsTrip /\ StopsWithin
    \/ EditStopsTrip /\ StopsWithin
    \/ AddAnyStop /\ StopsWithin
    \/ ReadStopsPage /\ StopsWithin

SpecStops == Init /\ [][NextStops]_vars

(***************************************************************************)
(* SpecReject: trips asked for and edited with forms that pass and forms   *)
(* that do not, and their days written to.                                 *)
(***************************************************************************)
MaxRejectTrips == 2
MaxRejectDays == 5

TripForm(destination, start_date, end_date) ==
    [destination |-> destination, start_date |-> start_date,
     end_date |-> end_date, travel_style |-> ""]

GoodTripForms ==
    { TripForm("Tokyo", isoformat(1), isoformat(2)),
      TripForm(" Oslo ", isoformat(2), isoformat(3)) }

\* A blank and a missing destination, an empty and a missing date, two
\* malformed dates, an end before the start.
BadTripForms ==
    { TripForm("   ", isoformat(1), isoformat(2)),
      TripForm(None, isoformat(1), isoformat(2)),
      TripForm("Paris", "", isoformat(2)),
      TripForm("Paris", isoformat(1), None),
      TripForm("Paris", "tomorrow", isoformat(2)),
      TripForm("Paris", isoformat(1), "01/03/2024"),
      TripForm("Paris", isoformat(3), isoformat(1)) }

NewAnyTrip ==
    \E form \in GoodTripForms \cup BadTripForms :
        new_trip(form.destination, form.start_date, form.end_date,
                 form.travel_style)

EditAnyTrip ==
    \E trip_id \in 1..MaxRejectTrips,
       form \in GoodTripForms \cup BadTripForms :
        edit_trip(trip_id, form.destination, form.start_date,
                  form.end_date, form.travel_style)

RejectWithin ==
    Within([trips |-> MaxRejectTrips, itinerary |-> MaxRejectDays,
            day_items |-> MaxItems, trip_stops |-> MaxStops,
            budget_items |-> MaxBudget, packing_items |-> MaxPacking])

NextReject ==
    \/ NewAnyTrip /\ RejectWithin
    \/ EditAnyTrip /\ RejectWithin
    \/ day_items = {} /\ WriteItinerary /\ RejectWithin

SpecReject == Init /\ [][NextReject]_vars

(***************************************************************************)
(* SpecHidden: a trip from a file whose items are chosen, its items hidden *)
(* one after the other, and its page, the dashboard and its export read.   *)
(***************************************************************************)
MaxHiddenTrips == 1
MaxHiddenItems == 5

\* On the first day, in Oslo: a hotel, a place and a breakfast, chosen.  On
\* the second: a dinner, chosen, and a hotel that is not.
HiddenFiles ==
    { << CsvRow("2024-01-01", "", "hotel", "Oslo Inn", "Oslo", "", "1"),
         CsvRow("2024-01-01", "morning", "place", "Louvre", "Oslo", "", "1"),
         CsvRow("2024-01-01", "", "restaurant", "Husk", "Oslo", "breakfast",
                "1"),
         CsvRow("2024-01-02", "", "restaurant", "Husk", "", "dinner", "1"),
         CsvRow("2024-01-02", "", "hotel", "Hotel Niwa Tokyo", "", "", "0")
      >> }

ImportHiddenFile ==
    \E file \in HiddenFiles : import_trip_csv("Tokyo", "", Upload(file), 0)

ReadHiddenPage ==
    \E trip_id \in 1..MaxHiddenTrips :
        \E stops \in FetchedByStartDate(StopsOf(trip_id)) :
            trip_detail(trip_id, stops, Offline)

ListTrips ==
    \E rows \in Fetched(trips, [t \in trips |-> parse_date(t.start_date)]),
       today \in Dates :
        list_trips(rows, today)

ExportTrip ==
    \E trip_id \in 1..MaxHiddenTrips : export_trip_csv_response(trip_id)

HiddenWithin ==
    Within([trips |-> MaxHiddenTrips, itinerary |-> MaxDays,
            day_items |-> MaxHiddenItems, trip_stops |-> MaxStops,
            budget_items |-> MaxBudget, packing_items |-> MaxPacking])

NextHidden ==
    \/ ImportHiddenFile /\ HiddenWithin
    \/ HideDayItem /\ HiddenWithin
    \/ ReadHiddenPage /\ HiddenWithin
    \/ ListTrips /\ HiddenWithin
    \/ ExportTrip /\ HiddenWithin

SpecHidden == Init /\ [][NextHidden]_vars

(***************************************************************************)
(* SpecLookups: the three builders applied to a trip, with and without the *)
(* credential, over the answers of the external services.                  *)
(***************************************************************************)
MaxLookupTrips == 1

LookupTripForms ==
    { [destination |-> m[1], start_date |-> isoformat(1),
       end_date |-> isoformat(2), travel_style |-> m[2]] :
          m \in {<<"Tokyo", "Foodie">>, <<" Oslo ", "">>,
                 <<"Charleston", "">>} }

NewLookupTrip ==
    \E form \in LookupTripForms :
        new_trip(form.destination, form.start_date, form.end_date,
                 form.travel_style)

\* The credential: not set, set to the empty text, set.
ApiKeys == {None, "", "key"}

\* The searches find nothing.
SearchesEmpty ==
    [c \in DOMAIN SearchesFound |->
        SearchResponse(TRUE, "ZERO_RESULTS", <<>>)]

SearchAnswers ==
    {SearchesFound, SearchesFailed, SearchesDenied, SearchesEmpty}

\* The geocoder fails, finds nothing, finds a place without a longitude,
\* finds the place.
GeoAnswers ==
    { [ok |-> FALSE, data |-> <<>>],
      [ok |-> TRUE, data |-> <<>>],
      [ok |-> TRUE, data |-> <<[lat |-> "35.7", lon |-> None]>>],
      [ok |-> TRUE, data |-> <<[lat |-> "35.7", lon |-> "139.7"]>>] }

ForecastBlock(dt, temp, description) ==
    [dt |-> dt, temp |-> temp, description |-> description]

\* The forecast fails, has no block, has blocks for the first two days.
WeatherAnswers ==
    { [ok |-> FALSE, blocks |-> <<>>],
      [ok |-> TRUE, blocks |-> <<>>],
      [ok |-> TRUE,
       blocks |-> << ForecastBlock(<<1>>, <<12>>, "light rain"),
                     ForecastBlock(<<1>>, <<7>>, None),
                     ForecastBlock(<<>>, <<30>>, "SNOW"),
                     ForecastBlock(<<2>>, <<>>, "SNOW") >>] }

\* A builder applied: what it was given and what came back.
Built(op, trip_id, given, result) ==
    [given |-> given, result |-> result] @@ Answer(op, trip_id, "")

BuildDaySuggestions ==
    \E t \in trips, api_key \in ApiKeys, responses \in SearchAnswers :
        /\ last' = Built("build_day_suggestions", t.id,
                       [api_key |-> api_key, responses |-> responses],
                       build_day_suggestions(t, api_key, responses))
        /\ UNCHANGED <<trips, itinerary, day_items, trip_stops,
                       budget_items, packing_items, seq>>

BuildWeatherStub ==
    \E t \in trips, api_key \in ApiKeys, geo \in GeoAnswers,
       weather \in WeatherAnswers :
        /\ last' = Built("build_weather_stub", t.id,
                       [api_key |-> api_key, geo |-> geo,
                        weather |-> weather],
                       build_weather_stub(t, OrderByDayNumber(DaysOf(t.id)),
                                          api_key, geo, weather))
        /\ UNCHANGED <<trips, itinerary, day_items, trip_stops,
                       budget_items, packing_items, seq>>

BuildFoodieHighlights ==
    \E t \in trips, api_key \in ApiKeys, responses \in SearchAnswers :
        /\ last' = Built("build_foodie_highlights", t.id,
                       [api_key |-> api_key, responses |-> responses],
                       build_foodie_highlights(t, api_key, responses))
        /\ UNCHANGED <<trips, itinerary, day_items, trip_stops,
                       budget_items, packing_items, seq>>

LookupsWithin ==
    Within([trips |-> MaxLookupTrips, itinerary |-> MaxDays,
            day_items |-> MaxItems, trip_stops |-> MaxStops,
            budget_items |-> MaxBudget, packing_items |-> MaxPacking])

NextLookups ==
    \/ NewLookupTrip /\ LookupsWithin
    \/ BuildDaySuggestions /\ LookupsWithin
    \/ BuildWeatherStub /\ LookupsWithin
    \/ BuildFoodieHighlights /\ LookupsWithin

SpecLookups == Init /\ [][NextLookups]_vars

(***************************************************************************)
(* SpecPacking: trips whose page is read, packing items added by hand,     *)
(* and the packing form sent as the page last read showed it.              *)
(***************************************************************************)
MaxPackingTrips == 2
MaxPackingRows == 2

PackingTripForms ==
    { [destination |-> m[1], start_date |-> isoformat(1),
       end_date |-> isoformat(1), travel_style |-> m[2]] :
          m \in {<<"Tokyo", "Foodie">>, <<"Seattle", "">>} }

NewPackingTrip ==
    \E form \in PackingTripForms :
        new_trip(form.destination, form.start_date, form.end_date,
                 form.travel_style)

\* A label typed in, without a category and with the category and label
\* of a suggested item.
TypedPacking ==
    { (<<"new_packing_label", 0>> :> " Adapter"),
      (<<"new_packing_label", 0>> :> "Medications")
          @@ (<<"new_packing_category", 0>> :> "Essentials") }

TypePackingItem ==
    \E trip_id \in 1..MaxPackingTrips, typed \in TypedPacking :
        LET rows == {r \in packing_items : r.trip_id = trip_id}
            shown == [k \in {<<"packing_label", r.id>> : r \in rows} |->
                         (CHOOSE r \in rows : r.id = k[2]).label]
        IN  /\ TripExists(trip_id)
            /\ update_packing_items(trip_id, typed @@ shown)

ReadPackingPage ==
    \E trip_id \in 1..MaxPackingTrips :
        \E stops \in FetchedByStartDate(StopsOf(trip_id)) :
            trip_detail(trip_id, stops, Offline)

\* Every row of the page last read is ticked and the form is sent.
TickPackingShown ==
    /\ last.op = "trip_detail"
    /\ last.flash = ""
    /\ LET by_category == last.page.packing_items_by_category
           shown == UNION {by_category[c] : c \in DOMAIN by_category}
           row(id) == CHOOSE r \in shown : r.id = id
           keys == {<<"packing_label", r.id>> : r \in shown}
                   \cup {<<"packing_checked", r.id>> : r \in shown}
       IN  update_packing_items(last.trip_id,
               [k \in keys |-> IF k[1] = "packing_label" THEN row(k[2]).label
                               ELSE "on"])

PackingWithin ==
    Within([trips |-> MaxPackingTrips, itinerary |-> MaxDays,
            day_items |-> MaxItems, trip_stops |-> MaxStops,
            budget_items |-> MaxBudget, packing_items |-> MaxPackingRows])

NextPacking ==
    \/ NewPackingTrip /\ PackingWithin
    \/ TypePackingItem /\ PackingWithin
    \/ ReadPackingPage /\ PackingWithin
    \/ TickPackingShown /\ PackingWithin

SpecPacking == Init /\ [][NextPacking]_vars

(***************************************************************************)
(* SpecPage: a trip of one day from a file, in Oslo or in no city; its     *)
(* items ticked and unticked one at a time, its day described, its lunch   *)
(* hidden, and its page read.                                              *)
(***************************************************************************)
MaxPageTrips == 1
MaxPageItems == 8

\* A day in Oslo with a place, two hotels, two breakfasts, a lunch, a
\* dinner and a snack; and a day in no city with a place and two hotels.
PageFiles ==
    { << CsvRow("2024-01-01", "morning", "place", "Louvre", "Oslo", "", "0"),
         CsvRow("2024-01-01", "", "hotel", "Hotel Niwa Tokyo", "", "", "0"),
         CsvRow("2024-01-01", "", "hotel", "Oslo Inn", "", "", "0"),
         CsvRow("2024-01-01", "", "restaurant", "Husk", "", "breakfast", "0"),
         CsvRow("2024-01-01", "", "restaurant",
                "Ichiran Ramen (solo ramen booths)", "", "breakfast", "0"),
         CsvRow("2024-01-01", "", "restaurant",
                "Gyukatsu Motomura (beef cutlet)", "", "lunch", "0"),
         CsvRow("2024-01-01", "", "restaurant", "Noma", "", "dinner", "0"),
         CsvRow("2024-01-01", "", "restaurant", "Maaemo", "", "snack", "0")
      >>,
      << CsvRow("2024-01-02", "", "place", "Louvre", "", "", "1"),
         CsvRow("2024-01-02", "", "hotel", "Shinjuku Granbell Hotel", "", "",
                "0"),
         CsvRow("2024-01-02", "", "hotel", "Oslo Inn", "", "", "1")
      >> }

ImportPageFile ==
    \E file \in PageFiles : import_trip_csv("Tokyo", "", Upload(file), 0)

\* The page as shown, with the box of one item ticked or unticked.
TickOneItem ==
    \E trip_id \in 1..MaxPageTrips :
        \E item \in Visible(ItemsOf(trip_id)) :
            LET shown == shown_form(trip_id)
                key == <<"item_checked", item.id>>
            IN  update_itinerary(trip_id,
                    IF key \in DOMAIN shown
                    THEN [k \in DOMAIN shown \ {key} |-> shown[k]]
                    ELSE (key :> "on") @@ shown)

\* The three descriptions of the day as typed: none, one, two and a blank,
\* three.
TypedDescriptions ==
    { <<"", "", "">>, <<" walk ", "", "">>, <<" walk ", "Louvre", "   ">>,
      <<" walk ", "Louvre", "Husk">> }

DescribeFirstDay ==
    \E trip_id \in 1..MaxPageTrips, typed \in TypedDescriptions :
        \E day \in {d \in DaysOf(trip_id) : d.day_number = 1} :
            update_itinerary(trip_id,
                (<<"morning_description", day.id>> :> typed[1])
                    @@ (<<"afternoon_description", day.id>> :> typed[2])
                    @@ (<<"evening_description", day.id>> :> typed[3])
                    @@ shown_form(trip_id))

HideLunch ==
    \E trip_id \in 1..MaxPageTrips :
        \E item \in {i \in Visible(ItemsOf(trip_id)) : i.slot = "lunch"} :
            hide_day_item(trip_id, item.id)

ReadPage ==
    \E trip_id \in 1..MaxPageTrips :
        \E stops \in FetchedByStartDate(StopsOf(trip_id)) :
            trip_detail(trip_id, stops, Offline)

PageWithin ==
    Within([trips |-> MaxPageTrips, itinerary |-> MaxDays,
            day_items |-> MaxPageItems, trip_stops |-> MaxStops,
            budget_items |-> MaxBudget, packing_items |-> MaxPacking])

NextPage ==
    \/ ImportPageFile /\ PageWithin
    \/ TickOneItem /\ PageWithin
    \/ DescribeFirstDay /\ PageWithin
    \/ HideLunch /\ PageWithin
    \/ ReadPage /\ PageWithin

SpecPage == Init /\ [][NextPage]_vars

(***************************************************************************)
(* SpecStatus: a trip of four days or of three, its days described and     *)
(* cleared, a place added to a day, unticked and hidden, and the dashboard *)
(* read.                                                                   *)
(***************************************************************************)
MaxStatusTrips == 1
MaxStatusItems == 1

StatusTripForms ==
    { [destination |-> "Tokyo", start_date |-> isoformat(1),
       end_date |-> isoformat(e), travel_style |-> ""] : e \in {3, 4} }

NewStatusTrip ==
    \E form \in StatusTripForms :
        new_trip(form.destination, form.start_date, form.end_date,
                 form.travel_style)

\* The page as shown, with the evening of one day typed or blanked.
DescribeOneDay ==
    \E trip_id \in 1..MaxStatusTrips, typed \in {" walk ", "   "} :
        \E day \in DaysOf(trip_id) :
            update_itinerary(trip_id,
                (<<"evening_description", day.id>> :> typed)
                    @@ shown_form(trip_id))

AddStatusPlace ==
    \E trip_id \in 1..MaxStatusTrips :
        \E day \in DaysOf(trip_id) :
            update_itinerary(trip_id,
                (<<"new_place", day.id>> :> " Louvre")
                    @@ shown_form(trip_id))

UntickStatusItem ==
    \E trip_id \in 1..MaxStatusTrips :
        \E item \in {i \in Visible(ItemsOf(trip_id)) : i.checked # 0} :
            LET shown == shown_form(trip_id)
            IN  update_itinerary(trip_id,
                    [k \in DOMAIN shown \ {<<"item_checked", item.id>>} |->
                        shown[k]])

HideStatusItem ==
    \E trip_id \in 1..MaxStatusTrips :
        \E item \in Visible(ItemsOf(trip_id)) :
            hide_day_item(trip_id, item.id)

StatusWithin ==
    Within([trips |-> MaxStatusTrips, itinerary |-> MaxDays,
            day_items |-> MaxStatusItems, trip_stops |-> MaxStops,
            budget_items |-> MaxBudget, packing_items |-> MaxPacking])

NextStatus ==
    \/ NewStatusTrip /\ StatusWithin
    \/ DescribeOneDay /\ StatusWithin
    \/ AddStatusPlace /\ StatusWithin
    \/ UntickStatusItem /\ StatusWithin
    \/ HideStatusItem /\ StatusWithin
    \/ ListTrips /\ StatusWithin

SpecStatus == Init /\ [][NextStatus]_vars

(***************************************************************************)
(* SpecBudget: the budget of a trip: items added, their actual amounts     *)
(* typed again, items removed.                                             *)
(***************************************************************************)
MaxBudgetTrips == 1
MaxBudgetRows == 2

\* Amounts as typed: a number, a negative number, zero, nothing, no number.
TypedAmounts == {"120", "-40", "0", "", "abc"}

NewBudgetTrip == new_trip("Tokyo", isoformat(1), isoformat(1), "")

AddBudget ==
    \E trip_id \in 1..MaxBudgetTrips, label \in {"Taxi", "   "},
       estimated \in TypedAmounts, actual \in TypedAmounts :
        add_budget_item(trip_id, label, estimated, actual)

\* Every item the page shows has its amount typed; one item may be left
\* out of the form.
UpdateBudget ==
    \E trip_id \in 1..MaxBudgetTrips, typed \in TypedAmounts :
        \E sent \in SUBSET {i.id : i \in {b \in budget_items :
                                             b.trip_id = trip_id}} :
            update_budget_items(trip_id,
                [k \in {<<"actual", id>> : id \in sent} |-> typed])

DeleteBudget ==
    \E trip_id \in 1..MaxBudgetTrips :
        \E item \in {b \in budget_items : b.trip_id = trip_id} :
            delete_budget_item(trip_id, item.id)

BudgetWithin ==
    Within([trips |-> MaxBudgetTrips, itinerary |-> MaxDays,
            day_items |-> MaxItems, trip_stops |-> MaxStops,
            budget_items |-> MaxBudgetRows, packing_items |-> MaxPacking])

NextBudget ==
    \/ NewBudgetTrip /\ BudgetWithin
    \/ AddBudget /\ BudgetWithin
    \/ UpdateBudget /\ BudgetWithin
    \/ DeleteBudget /\ BudgetWithin

SpecBudget == Init /\ [][NextBudget]_vars

(***************************************************************************)
(* SpecRace: one trip edited by two clients at the same time: each sends   *)
(* a form, and the requests in flight write in either order.               *)
(***************************************************************************)
MaxRaceTrips == 1
MaxRaceClients == 2

\* The trip as created, and the forms its edit page is sent with: the same
\* range under another destination, a longer range, a later range.
NewRaceTrip == new_trip("Tokyo", isoformat(1), isoformat(2), "") /\ Serial

RaceForms ==
    { [destination |-> m[1], start_date |-> isoformat(m[2]),
       end_date |-> isoformat(m[3]), travel_style |-> ""] :
          m \in {<<"Oslo", 1, 2>>, <<"Tokyo", 1, 3>>, <<"Tokyo", 2, 3>>,
                 <<"Tokyo", 3, 2>>} }

ReadEdit ==
    \E client \in 1..MaxRaceClients, trip_id \in 1..MaxRaceTrips,
       form \in RaceForms :
        /\ \A request \in reading : request.client # client
        /\ edit_trip_read(client, trip_id, form.destination,
                          form.start_date, form.end_date, form.travel_style)

WriteEdit == \E request \in reading : edit_trip_write(request)

\* The page as shown with a place added to one day, between the edits.
WriteRaceDay ==
    \E trip_id \in 1..MaxRaceTrips :
        \E day \in DaysOf(trip_id) :
            /\ update_itinerary(trip_id,
                   (<<"new_place", day.id>> :> " Louvre")
                       @@ shown_form(trip_id))
            /\ Serial

RaceWithin ==
    \A table \in DOMAIN seq :
        seq'[table] <= [trips |-> MaxRaceTrips, itinerary |-> MaxDays,
                        day_items |-> MaxHidden, trip_stops |-> MaxStops,
                        budget_items |-> MaxBudget,
                        packing_items |-> MaxPacking][table]

NextRace ==
    \/ NewRaceTrip /\ RaceWithin
    \/ ReadEdit /\ RaceWithin
    \/ WriteEdit /\ RaceWithin
    \/ WriteRaceDay /\ RaceWithin

SpecRace == Init /\ [][NextRace]_vars

(***************************************************************************)
(* SpecGenerate: trips of three styles, their days written by hand, in     *)
(* full or the afternoon alone, a place added, and the sample itinerary    *)
(* generated.                                                              *)
(***************************************************************************)
MaxGenerateTrips == 2
MaxGenerateDays == 3

GenerateTripForms ==
    { [destination |-> "Tokyo", start_date |-> isoformat(1),
       end_date |-> isoformat(m[2]), travel_style |-> m[1]] :
          m \in {<<"Foodie", 2>>, <<"Budget", 1>>, <<"", 1>>} }

NewGenerateTrip ==
    \E form \in GenerateTripForms :
        new_trip(form.destination, form.start_date, form.end_date,
                 form.travel_style)

\* The page as shown with one day's nine fields typed and a place added,
\* or with the afternoon of one day typed.
WriteGenerateDay ==
    \E trip_id \in 1..MaxGenerateTrips :
        \E day \in DaysOf(trip_id) :
            \E typed \in { typed_day(day.id)
                               @@ (<<"new_place", day.id>> :> " Louvre"),
                           (<<"afternoon_description", day.id>> :> "Louvre") } :
                update_itinerary(trip_id, typed @@ shown_form(trip_id))

GenerateItinerary ==
    \E trip_id \in 1..MaxGenerateTrips : generate_itinerary(trip_id)

GenerateWithin ==
    Within([trips |-> MaxGenerateTrips, itinerary |-> MaxGenerateDays,
            day_items |-> MaxHidden, trip_stops |-> MaxStops,
            budget_items |-> MaxBudget, packing_items |-> MaxPacking])

NextGenerate ==
    \/ NewGenerateTrip /\ GenerateWithin
    \/ WriteGenerateDay /\ GenerateWithin
    \/ GenerateItinerary /\ GenerateWithin

SpecGenerate == Init /\ [][NextGenerate]_vars

(***************************************************************************)
(* SpecHide: two trips to Tokyo seeded with the offline suggestions, a     *)
(* place and a hotel of theirs hidden by requests that name either trip,   *)
(* the page sent back with every item ticked, the first trip made longer   *)
(* and shorter, and the trips seeded again.                                *)
(***************************************************************************)
MaxHideTrips == 2
MaxHideDays == 3
MaxHideItems == 21

NewHideTrip == new_trip("Tokyo", isoformat(1), isoformat(1), "")

SeedHideTrip ==
    \E trip_id \in 1..MaxHideTrips :
        suggest_places(trip_id, None, [l \in Locations |-> SearchesDenied])

\* A request to hide names a trip and an item, of that trip or not; the
\* item is on one of the two days created first.
HideNamedItem ==
    \E trip_id \in 1..MaxHideTrips :
        \E item \in {i \in Visible(day_items) :
                        i.name \in {"Senso-ji Temple in Asakusa",
                                    "Hotel Niwa Tokyo"}} :
            /\ item.itinerary_id \in {1, 2}
            /\ hide_day_item(trip_id, item.id)

TickAllShown ==
    \E trip_id \in 1..MaxHideTrips :
        LET shown == shown_form(trip_id)
            items == Visible(ItemsOf(trip_id))
        IN  /\ items # {}
            /\ update_itinerary(trip_id,
                   [k \in {<<"item_checked", i.id>> : i \in items} |-> "on"]
                       @@ shown)

EditHideTrip ==
    \E last_date \in {1, 2} :
        edit_trip(1, "Tokyo", isoformat(1), isoformat(last_date), "")

HideWithin ==
    Within([trips |-> MaxHideTrips, itinerary |-> MaxHideDays,
            day_items |-> MaxHideItems, trip_stops |-> MaxStops,
            budget_items |-> MaxBudget, packing_items |-> MaxPacking])

NextHide ==
    \/ NewHideTrip /\ HideWithin
    \/ SeedHideTrip /\ HideWithin
    \/ HideNamedItem /\ HideWithin
    \/ TickAllShown /\ HideWithin
    \/ EditHideTrip /\ HideWithin

SpecHide == Init /\ [][NextHide]_vars

(***************************************************************************)
(* Properties of the itinerary under edit_trip.                            *)
(***************************************************************************)
StartOf(t) == parse_date(t.start_date)

EndOf(t) == parse_date(t.end_date)

\* The step was a committed edit_trip of trip t.
Edited(t) ==
    /\ last'.op = "edit_trip"
    /\ last'.trip_id = t.id
    /\ last'.flash = "Trip updated."

After(t) == CHOOSE n \in trips' : n.id = t.id

\* C1: the days of every trip are one per date of its stored range, and
\* day_number is the 1-based rank of the date.
C1_DaysAreTheRange ==
    \A t \in trips :
        /\ StartOf(t) # ValueError /\ EndOf(t) # ValueError
        /\ StartOf(t) <= EndOf(t)
        /\ Cardinality(DaysOf(t.id)) = EndOf(t) - StartOf(t) + 1
        /\ \A d \in StartOf(t)..EndOf(t) :
               \E day \in DaysOf(t.id) :
                   /\ day.date = isoformat(d)
                   /\ day.day_number = d - StartOf(t) + 1

\* A trip edited so that a day created later comes before an older one.
C1_Witness ==
    /\ last.op = "edit_trip"
    /\ last.flash = "Trip updated."
    /\ \E a, b \in DaysOf(last.trip_id) :
           a.id > b.id /\ a.day_number < b.day_number

\* C2: an edit_trip that changes the range deletes exactly the days of the
\* trip whose date is outside the new range.
C2_DeletesExactlyOutside ==
    [][ \A t \in trips :
            Edited(t) /\ <<StartOf(After(t)), EndOf(After(t))>>
                            # <<StartOf(t), EndOf(t)>>
            => Ids(DaysOf(t.id)) \ Ids(itinerary')
                   = { d.id : d \in { x \in DaysOf(t.id) :
                           \/ parse_date(x.date) < StartOf(After(t))
                           \/ parse_date(x.date) > EndOf(After(t)) } }
      ]_vars

\* An edit that deleted a day and kept another.
C2_Witness ==
    /\ last.op = "edit_trip"
    /\ last.removed # {}
    /\ \E d \in DaysOf(last.trip_id) : d.id < Max(last.removed)

\* C3: a day whose date is in the new range keeps its id, its date, its
\* nine slot fields and its checklist items; a superset range deletes
\* nothing.
C3_KeptDaysKeepContent ==
    [][ \A t \in trips :
            Edited(t)
            => /\ \A d \in DaysOf(t.id) :
                      ( /\ StartOf(After(t)) <= parse_date(d.date)
                        /\ parse_date(d.date) <= EndOf(After(t)) )
                      => /\ \E n \in itinerary' :
                                /\ n.id = d.id
                                /\ n.trip_id = d.trip_id
                                /\ n.date = d.date
                                /\ n.slots = d.slots
                         /\ {i \in day_items' : i.itinerary_id = d.id}
                                = {i \in day_items : i.itinerary_id = d.id}
               /\ ( /\ StartOf(After(t)) <= StartOf(t)
                    /\ EndOf(t) <= EndOf(After(t)) )
                  => /\ Ids(itinerary) \subseteq Ids(itinerary')
                     /\ day_items' = day_items
      ]_vars

\* A written day with an item, renumbered by an edit that put a new day
\* before it.
C3_Witness ==
    /\ last.op = "edit_trip"
    /\ last.flash = "Trip updated."
    /\ StartOf(TripRow(last.trip_id)) < StartOf(last.before)
    /\ \E d \in DaysOf(last.trip_id) :
           /\ d.slots # EmptySlots
           /\ d.day_number > 1
           /\ d.id < seq.itinerary
           /\ \E i \in day_items : i.itinerary_id = d.id

\* C4: no checklist item refers to a day that is gone, and an item goes
\* only together with its day.
C4_ItemsGoWithTheirDay ==
    /\ [](\A i \in day_items : i.itinerary_id \in Ids(itinerary))
    /\ [][ \A i \in day_items :
               i.id \notin Ids(day_items')
               => i.itinerary_id \notin Ids(itinerary') ]_vars

\* An edit removed a day while items of another day were left.
C4_Witness ==
    /\ last.op = "edit_trip"
    /\ last.removed # {}
    /\ seq.day_items > Cardinality(day_items)
    /\ day_items # {}

\* C5: an edit_trip with the trip's own dates changes no day and no item;
\* of the trip only destination and travel style may change.
C5_SameDatesLeaveDays ==
    [][ \A t \in trips :
            ( /\ Edited(t)
              /\ StartOf(After(t)) = StartOf(t)
              /\ EndOf(After(t)) = EndOf(t) )
            => /\ itinerary' = itinerary
               /\ day_items' = day_items
               /\ last'.removed = {}
               /\ trips' = (trips \ {t}) \cup
                      {[t EXCEPT !.destination = After(t).destination,
                                 !.travel_style = After(t).travel_style]}
      ]_vars

\* An edit with the same dates that changed destination and travel style.
C5_Witness ==
    /\ last.op = "edit_trip"
    /\ last.flash = "Trip updated."
    /\ \E t \in trips :
           /\ t.id = last.trip_id
           /\ t.start_date = last.before.start_date
           /\ t.end_date = last.before.end_date
           /\ t.destination # last.before.destination
           /\ t.travel_style # last.before.travel_style
           /\ DaysOf(t.id) # {}
           /\ ItemsOf(t.id) # {}

(***************************************************************************)
(* Properties of delete_trip.                                              *)
(***************************************************************************)
\* C6: after delete_trip(t) no day, checklist item, stop, budget item or
\* packing item of trip t is left, and the rows of other trips are as they
\* were.
C6_DeleteTripCascades ==
    [][ last'.op = "delete_trip"
        => LET t == last'.trip_id
               gone == Ids(DaysOf(t))
           IN  /\ ~\E d \in itinerary' : d.trip_id = t
               /\ ~\E i \in day_items' : i.itinerary_id \in gone
               /\ ~\E x \in trip_stops' : x.trip_id = t
               /\ ~\E b \in budget_items' : b.trip_id = t
               /\ ~\E k \in packing_items' : k.trip_id = t
               /\ {d \in itinerary' : d.trip_id # t}
                      = {d \in itinerary : d.trip_id # t}
               /\ {i \in day_items' : i.itinerary_id \notin gone}
                      = {i \in day_items : i.itinerary_id \notin gone}
               /\ {x \in trip_stops' : x.trip_id # t}
                      = {x \in trip_stops : x.trip_id # t}
               /\ {b \in budget_items' : b.trip_id # t}
                      = {b \in budget_items : b.trip_id # t}
               /\ {k \in packing_items' : k.trip_id # t}
                      = {k \in packing_items : k.trip_id # t}
      ]_vars

\* The same without the packing items: what delete_trip does remove.
C6_DeleteTripCascadesButPacking ==
    [][ last'.op = "delete_trip"
        => LET t == last'.trip_id
               gone == Ids(DaysOf(t))
           IN  /\ ~\E d \in itinerary' : d.trip_id = t
               /\ ~\E i \in day_items' : i.itinerary_id \in gone
               /\ ~\E x \in trip_stops' : x.trip_id = t
               /\ ~\E b \in budget_items' : b.trip_id = t
               /\ {d \in itinerary' : d.trip_id # t}
                      = {d \in itinerary : d.trip_id # t}
               /\ {i \in day_items' : i.itinerary_id \notin gone}
                      = {i \in day_items : i.itinerary_id \notin gone}
               /\ {x \in trip_stops' : x.trip_id # t}
                      = {x \in trip_stops : x.trip_id # t}
               /\ {b \in budget_items' : b.trip_id # t}
                      = {b \in budget_items : b.trip_id # t}
               /\ packing_items' = packing_items
      ]_vars

(***************************************************************************)
(* Properties of the CSV export and import.                                *)
(***************************************************************************)
\* What identifies a checklist item apart from its id: the date of its day,
\* its category, name, checked flag and slot.
ItemTuple(days, item) ==
    LET day == CHOOSE d \in days : d.id = item.itinerary_id
    IN  <<day.date, item.category, item.name, item.checked, item.slot>>

Imported == "Trip imported from CSV."

C8_Origination ==
    [][ /\ last'.op = "import_trip_csv"
        /\ last'.flash #
               "Please provide a destination and choose a CSV file."
        /\ parsed_rows(last'.file) # <<>>
        => LET rows == parsed_rows(last'.file)
               first == Min(RowDates(rows))
               final == Max(RowDates(rows))
               id == seq.trips + 1
               days == {d \in itinerary' : d.trip_id = id}
               created == OrderById(day_items' \ day_items)
           IN  /\ last'.flash = Imported
               /\ \E t \in trips' :
                      /\ trips' = trips \cup {t}
                      /\ t.id = id
                      /\ t.start_date = isoformat(first)
                      /\ t.end_date = isoformat(final)
               /\ itinerary' \ itinerary = days
               /\ Cardinality(days) = final - first + 1
               /\ \A x \in first..final :
                      \E d \in days : d.date = isoformat(x)
               /\ Len(created) = Len(rows)
               /\ \A n \in 1..Len(created) :
                      /\ \E d \in days :
                             /\ d.id = created[n].itinerary_id
                             /\ d.date = isoformat(rows[n].date)
                      /\ created[n].checked = rows[n].selected
                      /\ created[n].name = rows[n].name
                      /\ created[n].category = rows[n].category
      ]_vars

\* A trip has been made from a file with a row that is not valid, rows on
\* different dates, and a selected cell that parses to unchecked.
C8_Witness ==
    /\ last.op = "import_trip_csv"
    /\ last.source = 0
    /\ last.flash = Imported
    /\ Len(parsed_rows(last.file)) < Len(last.file)
    /\ Cardinality(RowDates(parsed_rows(last.file))) > 1
    /\ \E i \in ItemsOf(last.trip_id) : i.checked = 0
    /\ Cardinality(ItemsOf(last.trip_id)) = Len(parsed_rows(last.file))

(***************************************************************************)
(* Properties of the CSV merge.                                            *)
(***************************************************************************)
Merged(t) ==
    /\ last'.op = "import_trip_csv_into_trip"
    /\ last'.before = t
    /\ t \in trips

\* The valid rows of the merged file whose date is in the trip's range.
RowsWithin(t, file) ==
    LET rows == parsed_rows(file)
    IN  {n \in 1..Len(rows) :
            StartOf(t) <= rows[n].date /\ rows[n].date <= EndOf(t)}

\* C9: a merge creates items and stops only from the rows whose date is in
\* the trip's range, a stop spanning the dates of its city's rows in the
\* range; without such a row the merge answers with an error and trips,
\* days, stops and items stay as they are.
C9_MergeDropsOutOfRange ==
    [][ \A t \in trips :
          Merged(t)
          => LET rows == parsed_rows(last'.file)
                 within == RowsWithin(t, last'.file)
                 of(city) == {rows[n].date :
                                 n \in {m \in within : rows[m].city = city}}
             IN  /\ \A i \in day_items' \ day_items :
                        \E n \in within :
                            /\ ItemTuple(itinerary', i)[1]
                                   = isoformat(rows[n].date)
                            /\ i.name = rows[n].name
                            /\ i.category = rows[n].category
                 /\ \A x \in trip_stops' \ trip_stops :
                        /\ of(x.name) # {}
                        /\ x.start_date = isoformat(Min(of(x.name)))
                        /\ x.end_date = isoformat(Max(of(x.name)))
                 /\ within = {}
                        => /\ last'.flash \in
                                 {"Please choose a CSV file.",
                                  NoValidRows \o ",selected.",
                                  "CSV rows are all outside the current trip dates."}
                           /\ UNCHANGED <<trips, itinerary, trip_stops,
                                          day_items>>
      ]_vars

\* A merge has taken rows of a file and left out a row of a city outside
\* the trip's dates: the city's stop ends before that row's date.
C9_Witness ==
    /\ last.op = "import_trip_csv_into_trip"
    /\ last.flash = "Trip updated from CSV."
    /\ \E t \in trips :
           /\ t.id = last.trip_id
           /\ RowsWithin(t, last.file) # {}
           /\ \E n \in 1..Len(parsed_rows(last.file)) :
                  /\ n \notin RowsWithin(t, last.file)
                  /\ \E x \in StopsOf(t.id) :
                         /\ x.name = parsed_rows(last.file)[n].city
                         /\ parse_date(x.end_date)
                                < parsed_rows(last.file)[n].date

\* C10: a merge leaves the trip, its days and every stop and item there is
\* as they are, and adds one item per row in the trip's range and one stop
\* per distinct non-blank city of those rows, whatever items and stops the
\* trip has; the numbers added depend on the file and the trip's dates
\* alone, so merging the file again adds as many.
C10_MergeOnlyAppends ==
    [][ \A t \in trips :
          Merged(t)
          => LET rows == parsed_rows(last'.file)
                 within == RowsWithin(t, last'.file)
                 cities == {rows[n].city : n \in within} \ {""}
             IN  /\ UNCHANGED <<trips, itinerary>>
                 /\ day_items \subseteq day_items'
                 /\ trip_stops \subseteq trip_stops'
                 /\ Cardinality(day_items' \ day_items)
                        = Cardinality(within)
                 /\ Cardinality(trip_stops' \ trip_stops)
                        = Cardinality(cities)
                 /\ {x.name : x \in trip_stops' \ trip_stops} = cities
      ]_vars

\* A file has been merged into a trip that had items of the same day,
\* category and name and a stop of the same name: the trip has at least
\* twice the file's items and stops.
C10_Witness ==
    /\ last.op = "import_trip_csv_into_trip"
    /\ last.flash = "Trip updated from CSV."
    /\ \E t \in trips :
           /\ t.id = last.trip_id
           /\ Cardinality(ItemsOf(t.id))
                  >= 2 * Cardinality(RowsWithin(t, last.file))
           /\ \E i, j \in ItemsOf(t.id) :
                  /\ i.id # j.id
                  /\ ItemTuple(itinerary, i) = ItemTuple(itinerary, j)
           /\ \E x, y \in StopsOf(t.id) : x.id # y.id /\ x.name = y.name

(***************************************************************************)
(* Properties of the checklist items.                                      *)
(***************************************************************************)
\* C11: every checklist item has one of the three categories; a place has
\* no slot or a time of day, a restaurant no slot or a meal, a hotel no
\* slot.
C11_SlotsFitCategories ==
    \A i \in day_items :
        /\ i.category \in {"place", "restaurant", "hotel"}
        /\ i.category = "place"
               => i.slot \in {"morning", "afternoon", "evening", None}
        /\ i.category = "restaurant"
               => i.slot \in {"breakfast", "lunch", "dinner", "snack", None}
        /\ i.category = "hotel" => i.slot = None

\* The itinerary form has been sent with both selectors for every item of
\* a trip that has a place with its time of day, a restaurant with its
\* meal, a hotel, and a seeded suggestion.
C11_Witness ==
    /\ last.op = "update_itinerary"
    /\ \E i \in day_items : i.category = "place" /\ i.slot = "morning"
    /\ \E i \in day_items : i.category = "restaurant" /\ i.slot = "dinner"
    /\ \E i \in day_items : i.category = "hotel" /\ i.hidden = 0
    /\ \E i \in day_items : i.name = "Hotel Niwa Tokyo"

\* C12: in both import modes the item made from a row is unchecked when
\* its selected cell, trimmed and lower-cased, is 0, false, no or n, and
\* checked for every other cell, the empty and the missing one included.
C12_SelectedParsing ==
    [][ last'.op \in {"import_trip_csv", "import_trip_csv_into_trip"}
        => LET file == last'.file
               created == OrderById(day_items' \ day_items)
               Trimmed(cell) == lower(strip(IF cell = None THEN "" ELSE cell))
           IN  /\ Len(created) = Len(file)
               /\ \A n \in 1..Len(file) :
                      created[n].checked
                          = IF Trimmed(file[n].selected)
                                   \in {"0", "false", "no", "n"}
                            THEN 0 ELSE 1
      ]_vars

\* A trip has two unchecked items and then a checked one, the last made by
\* merging a file without the selected column.
C12_Witness ==
    /\ last.op = "import_trip_csv_into_trip"
    /\ Len(last.file) = 1
    /\ last.file[1].selected = None
    /\ \E i, j, k \in ItemsOf(last.trip_id) :
           /\ i.id < j.id /\ j.id < k.id
           /\ i.checked = 0 /\ j.checked = 0 /\ k.checked = 1

(***************************************************************************)
(* Properties of the stops.                                                *)
(***************************************************************************)
\* The stops of the page that hold the date, by their place in the order
\* the page processed them.
Covering(page, date) ==
    {n \in 1..Len(page.stops) :
        /\ parse_date(page.stops[n].start_date) <= date
        /\ date <= parse_date(page.stops[n].end_date)}

\* C13: on the trip page a date is mapped to a location exactly when some
\* stop holds it, and then to the name of the last stop, in the order the
\* stops were processed, that holds it; so a date held by one stop is
\* mapped to that stop.
C13_LastStopWins ==
    last.op = "trip_detail" /\ last.flash = ""
        => \A date \in Dates :
               LET covering == Covering(last.page, date)
                   mapping == last.page.location_by_date
               IN  /\ isoformat(date) \in DOMAIN mapping <=> covering # {}
                   /\ covering # {}
                          => mapping[isoformat(date)]
                                 = last.page.stops[Max(covering)].name

\* The page of a trip with two stops of different names: one date is held
\* by both, one by the first only, one by none.
C13_Witness ==
    /\ last.op = "trip_detail" /\ last.flash = ""
    /\ Len(last.page.stops) = 2
    /\ last.page.stops[1].name # last.page.stops[2].name
    /\ \E date \in Dates : Covering(last.page, date) = {1, 2}
    /\ \E date \in Dates : Covering(last.page, date) = {1}
    /\ \E date \in Dates : Covering(last.page, date) = {}

\* C14: a request to add a stop creates at most one stop, and creates it
\* only with a name that is not blank and two well-formed dates such that
\* trip start <= stop start <= stop end <= trip end; the stop created has
\* the trimmed name and these dates.
C14_StopsWithinTrip ==
    [][ \A trip_id \in {last'.trip_id}, form \in StopForms :
        LET name == form[1]
            start_str == form[2]
            end_str == form[3]
        IN  last'.op = "add_trip_stop"
            /\ add_trip_stop(trip_id, name, start_str, end_str)
                => \/ trip_stops' = trip_stops
                   \/ /\ TripExists(trip_id)
                      /\ strip(name) # ""
                      /\ parse_date(start_str) # ValueError
                      /\ parse_date(end_str) # ValueError
                      /\ StartOf(TripRow(trip_id)) <= parse_date(start_str)
                      /\ parse_date(start_str) <= parse_date(end_str)
                      /\ parse_date(end_str) <= EndOf(TripRow(trip_id))
                      /\ \E stop \in trip_stops' \ trip_stops :
                             /\ trip_stops' = trip_stops \cup {stop}
                             /\ stop.trip_id = trip_id
                             /\ stop.name = strip(name)
                             /\ stop.start_date
                                    = isoformat(parse_date(start_str))
                             /\ stop.end_date
                                    = isoformat(parse_date(end_str))
      ]_vars

\* A trip from the second to the third day has a stop on these two days
\* and one on the third, and the last request, for a stop from the first
\* day, was refused.
C14_Witness ==
    /\ last.op = "add_trip_stop"
    /\ last.flash = "Stop dates must fall within the overall trip dates."
    /\ \E t \in trips :
           /\ t.id = last.trip_id
           /\ StartOf(t) = 2 /\ EndOf(t) = 3
           /\ \E x, y \in StopsOf(t.id) :
                  /\ parse_date(x.start_date) = 2
                  /\ parse_date(x.end_date) = 3
                  /\ parse_date(y.start_date) = 3
                  /\ parse_date(y.end_date) = 3

\* C15: edit_trip leaves the stops as they are, whatever the dates it
\* stores.
C15_EditKeepsStops ==
    [][ last'.op = "edit_trip" => trip_stops' = trip_stops ]_vars

\* An edit has stored a range that a stop of the trip is not within.
C15_Witness ==
    /\ last.op = "edit_trip"
    /\ last.flash = "Trip updated."
    /\ \E t \in trips :
           /\ t.id = last.trip_id
           /\ \E x \in StopsOf(t.id) :
                  \/ parse_date(x.start_date) < StartOf(t)
                  \/ parse_date(x.end_date) > EndOf(t)

(***************************************************************************)
(* Properties of the requests that are refused.                            *)
(***************************************************************************)
\* The form does not pass validation: its destination is blank or
\* missing, a date is empty, missing or malformed, or the end is before
\* the start.
Invalid(form) ==
    \/ form.destination = None
    \/ strip(form.destination) = ""
    \/ form.start_date \in {None, ""}
    \/ form.end_date \in {None, ""}
    \/ parse_date(form.start_date) = ValueError
    \/ parse_date(form.end_date) = ValueError
    \/ parse_date(form.end_date) < parse_date(form.start_date)

\* C16: new_trip and edit_trip with a form that does not pass validation
\* leave the trips, the days and the checklist items, and every other
\* table, as they were.
C16_RejectedCommitsNothing ==
    [][ \A form \in GoodTripForms \cup BadTripForms :
            /\ Invalid(form)
            /\ \/ new_trip(form.destination, form.start_date,
                           form.end_date, form.travel_style)
               \/ \E trip_id \in 1..MaxRejectTrips :
                      edit_trip(trip_id, form.destination, form.start_date,
                                form.end_date, form.travel_style)
            => UNCHANGED <<trips, itinerary, day_items, trip_stops,
                           budget_items, packing_items, seq>>
      ]_vars

\* An edit whose end is before its start has been refused for a trip that
\* has days and a checklist item.
C16_Witness ==
    /\ last.op = "edit_trip"
    /\ last.flash = "End date cannot be before start date."
    /\ TripExists(last.trip_id)
    /\ DaysOf(last.trip_id) # {}
    /\ ItemsOf(last.trip_id) # {}

\* C17: a request addressed to a trip id that no trip has changes no
\* table.
C17_NotFoundChangesNothing ==
    [][ /\ last'.op \in {"add_budget_item", "update_packing_items",
                         "hide_day_item", "add_trip_stop", "edit_trip",
                         "delete_trip", "update_itinerary"}
        /\ ~TripExists(last'.trip_id)
        => UNCHANGED <<trips, itinerary, day_items, trip_stops,
                       budget_items, packing_items, seq>>
      ]_vars

(***************************************************************************)
(* Properties of the hidden items.                                         *)
(***************************************************************************)
\* The items of a trip that are not hidden, as the rows of its days.
Shown(trip_id, day) ==
    per_day_items({i \in ItemsOf(trip_id) : i.hidden = 0}, day)

\* C18: hiding an item keeps its row, with every column but hidden as it
\* was; and the completion of a day, its directions, its hotels, the
\* planning status of the trip and the rows of its export are those that
\* the items that are not hidden give, whatever the checked flag of the
\* hidden ones.
C18_HiddenDoNotCount ==
    [][ /\ last'.op = "hide_day_item"
            => /\ Ids(day_items') = Ids(day_items)
               /\ \A i \in day_items :
                      \E j \in day_items' :
                          j \in {i, [i EXCEPT !.hidden = 1]}
        /\ last'.op = "trip_detail" /\ last'.flash = ""
            => LET page == last'.page
                   id == last'.trip_id
               IN  \A n \in 1..Len(page.days) :
                       LET day == page.days[n]
                           city == DictGet(page.location_by_date, day.date)
                           url == build_day_directions_url(page.trip, day,
                                      Shown(id, day), city)
                       IN  /\ page.completion_by_day[day]
                                  = completion(day, Shown(id, day))
                           /\ page.hotels_filtered_by_day[day]
                                  = hotels_filtered(city, Shown(id, day))
                           /\ day \in DOMAIN page.directions_by_day
                                  <=> url # ""
                           /\ url # ""
                                  => page.directions_by_day[day] = url
                           /\ \A c \in Categories :
                                  \A k \in 1..Len(page.items_by_day[day][c]) :
                                      page.items_by_day[day][c][k].hidden = 0
        /\ last'.op = "list_trips"
            => \A t \in trips :
                   last'.status_by_trip[t.id]
                       = planning_status(DaysOf(t.id),
                             {i \in ItemsOf(t.id) : i.hidden = 0})
        /\ last'.op = "export_trip_csv" /\ last'.flash = ""
            => LET shown == OrderById({i \in ItemsOf(last'.trip_id) :
                                          i.hidden = 0})
               IN  /\ Len(last'.rows) = Len(shown)
                   /\ \A n \in 1..Len(shown) :
                          /\ last'.rows[n].name = shown[n].name
                          /\ last'.rows[n].category = shown[n].category
      ]_vars

\* The page is read when the chosen hotel, the chosen breakfast and the
\* chosen dinner are hidden, still chosen, and a chosen place is not.
C18_Witness ==
    /\ last.op = "trip_detail" /\ last.flash = ""
    /\ \E i \in ItemsOf(last.trip_id) :
           i.category = "hotel" /\ i.hidden = 1 /\ i.checked = 1
    /\ \E i \in ItemsOf(last.trip_id) :
           i.slot = "breakfast" /\ i.hidden = 1 /\ i.checked = 1
    /\ \E i \in ItemsOf(last.trip_id) :
           i.slot = "dinner" /\ i.hidden = 1 /\ i.checked = 1
    /\ \E i \in ItemsOf(last.trip_id) :
           i.category = "place" /\ i.hidden = 0 /\ i.checked = 1

(***************************************************************************)
(* Properties of the suggestions.                                          *)
(***************************************************************************)
\* The (category, name) pairs suggested for a day of the trip.
Suggested(trip, day, api_key, lookup) ==
    LET stop_name == location_by_date(trip.id, day.date)
        location == IF Truthy(stop_name) THEN stop_name
                    ELSE trip.destination
        pairs == suggested_pairs(
                     build_day_suggestions(
                         [destination |-> location,
                          travel_style |-> trip.travel_style],
                         api_key, lookup[location]).value)
    IN  {pairs[n] : n \in 1..Len(pairs)}

SameKey(i, j) ==
    /\ i.itinerary_id = j.itinerary_id
    /\ i.category = j.category
    /\ i.name = j.name

\* C19: suggest_places removes no item, inserts no item whose day,
\* category and name an item of the day already has, hidden or not, and no
\* two items with the same day, category and name; after it every
\* suggestion of every day is an item of that day, so that the same lists
\* again find each of them there and add nothing.
C19_SeedingIsIdempotent ==
    [][ \A trip_id \in 1..MaxSuggestTrips, env \in SuggestLookups :
            /\ last'.op = "suggest_places"
            /\ last'.flash # "Trip not found."
            /\ suggest_places(trip_id, env[1], env[2])
            => /\ day_items \subseteq day_items'
               /\ \A i \in day_items' \ day_items :
                      \A j \in day_items' : SameKey(i, j) => i = j
               /\ \A day \in DaysOf(trip_id) :
                      \A pair \in Suggested(TripRow(trip_id), day, env[1],
                                            env[2]) :
                          \E j \in day_items' :
                              /\ j.itinerary_id = day.id
                              /\ j.category = pair[1]
                              /\ j.name = pair[2]
               /\ \A i \in day_items' \ day_items :
                      \E day \in DaysOf(trip_id) :
                          /\ i.itinerary_id = day.id
                          /\ <<i.category, i.name>>
                                 \in Suggested(TripRow(trip_id), day,
                                               env[1], env[2])
      ]_vars

\* Suggestions have been asked for after a seeded place was hidden, and
\* the day has that place once.
C19_Witness ==
    /\ last.op = "suggest_places"
    /\ last.flash # "Trip not found."
    /\ \E i \in day_items :
           /\ i.name = "Senso-ji Temple in Asakusa"
           /\ i.hidden = 1
           /\ \A j \in day_items : SameKey(i, j) => i = j

(***************************************************************************)
(* Properties of the external lookups.                                     *)
(***************************************************************************)
\* C20: build_day_suggestions, build_weather_stub and
\* build_foodie_highlights raise nothing; each returns its offline result
\* when its credential is not set or empty, and when its external path
\* raises; and no list of suggested places, restaurants or hotels is
\* empty.
C20_LookupsFallBack ==
    /\ last.op = "build_day_suggestions"
           => LET trip == TripRow(last.trip_id)
                  external == build_day_suggestions_from_google_places(
                                  trip, last.given.responses)
              IN  /\ ~last.result.raised
                  /\ last.given.api_key \in {None, ""} \/ external.raised
                         => last.result.value = offline_day_suggestions(trip)
                  /\ \A c \in {"place", "restaurant", "hotel"} :
                         Len(last.result.value[c]) > 0
    /\ last.op = "build_weather_stub"
           => LET trip == TripRow(last.trip_id)
                  days == OrderByDayNumber(DaysOf(last.trip_id))
                  external == build_weather_from_openweather(trip, days,
                                  last.given.geo, last.given.weather)
              IN  /\ ~last.result.raised
                  /\ last.given.api_key \in {None, ""} \/ external.raised
                         => last.result.value
                                = offline_weather_forecast(trip, days)
    /\ last.op = "build_foodie_highlights"
           => LET trip == TripRow(last.trip_id)
                  external == build_day_suggestions_from_google_places(
                                  trip, last.given.responses)
              IN  /\ ~last.result.raised
                  /\ last.given.api_key \in {None, ""} \/ external.raised
                         => last.result.value
                                = offline_foodie_highlights(trip)

\* The credential is set and the forecast request fails after the geocoder
\* answered: the forecast returned is the offline one.
C20_Witness ==
    /\ last.op = "build_weather_stub"
    /\ last.given.api_key = "key"
    /\ last.given.geo.ok /\ last.given.geo.data # <<>>
    /\ last.given.geo.data[1].lon # None
    /\ ~last.given.weather.ok
    /\ Len(last.result.value) = 2

(***************************************************************************)
(* Properties of the packing list.                                         *)
(***************************************************************************)
\* The seeding run for a trip on the rows and the last id given.
SeedRun(t, rows, next) ==
    get_packing_items_for_trip(t, OrderByDayNumber(DaysOf(t.id)), rows, next)

SamePacking(r, q) ==
    r.trip_id = q.trip_id /\ r.category = q.category /\ r.label = q.label

C27_PackingSeedIsStored ==
    last.op = "trip_detail" /\ last.flash = ""
        => LET t == TripRow(last.trip_id)
               suggested == build_packing_list(t,
                                OrderByDayNumber(DaysOf(t.id)))
           IN  \A n \in 1..Len(suggested) :
                   \E r \in packing_items :
                       /\ r.trip_id = t.id
                       /\ r.category = suggested[n][1]
                       /\ r.label = suggested[n][2]

(***************************************************************************)
(* Properties of the page of a trip: completion, hotels, directions.       *)
(***************************************************************************)
PageRead == last.op = "trip_detail" /\ last.flash = ""

\* The stored items of a day that are not hidden, and those of them chosen.
OnPage(day) == {i \in day_items : i.itinerary_id = day.id /\ i.hidden = 0}

Chosen(day) == {i \in OnPage(day) : i.checked # 0}

Described(day) ==
    {f \in {"morning_description", "afternoon_description",
            "evening_description"} :
        day.slots[f] # None /\ strip(day.slots[f]) # ""}

MealsPicked(day) ==
    {m \in {"breakfast", "lunch", "dinner"} :
        \E i \in Chosen(day) : i.category = "restaurant" /\ i.slot = m}

\* round(100 * n / 6) for n = 0..6
SixthsRounded == <<0, 17, 33, 50, 67, 83, 100>>

\* C22: the completion of a day on the page counts the descriptions that
\* are not blank once trimmed and the meals among breakfast, lunch and
\* dinner with a chosen item that is not hidden; its percent is their sum
\* in sixths of 100, rounded: one of 0, 17, 33, 50, 67, 83, 100.
C22_CompletionPercent ==
    PageRead
        => \A n \in 1..Len(last.page.days) :
               LET day == last.page.days[n]
                   stats == last.page.completion_by_day[day]
               IN  /\ stats.slots_filled = Cardinality(Described(day))
                   /\ stats.meals_picked = Cardinality(MealsPicked(day))
                   /\ stats.percent
                          = SixthsRounded[stats.slots_filled
                                              + stats.meals_picked + 1]

\* Three descriptions, both breakfasts, the lunch and the snack chosen, the
\* dinner not: 83.
C22_Witness ==
    /\ PageRead
    /\ \E n \in 1..Len(last.page.days) :
           LET day == last.page.days[n]
           IN  /\ Cardinality(Described(day)) = 3
               /\ Cardinality({i \in Chosen(day) : i.slot = "breakfast"}) = 2
               /\ \E i \in Chosen(day) : i.slot = "lunch"
               /\ \E i \in Chosen(day) : i.slot = "snack"
               /\ \E i \in OnPage(day) : i.slot = "dinner" /\ i.checked = 0
               /\ last.page.completion_by_day[day].percent = 83

\* The names of the stops of the page that hold the date of the day: the
\* last of them is the location of the day.
DayLocation(page, day) ==
    LET covering == Covering(page, parse_date(day.date))
    IN  IF covering = {} THEN None ELSE page.stops[Max(covering)].name

Elements(sequence) == {sequence[n] : n \in 1..Len(sequence)}

\* The hotels among items that the page lists for a day at the location.
HotelsAt(items, location) ==
    {i \in items :
        /\ i.category = "hotel"
        /\ location # None => HasWord(lower(i.name), lower(location))}

\* C23 as stated: the hotels listed for a day are its chosen hotels, those
\* naming the stop when a stop holds the date; a hotel that is not chosen
\* is never listed.
C23_HotelsListedAreChosen ==
    PageRead
        => \A n \in 1..Len(last.page.days) :
               LET day == last.page.days[n]
                   listed == last.page.hotels_filtered_by_day[day]
               IN  Elements(listed)
                       = HotelsAt(Chosen(day), DayLocation(last.page, day))

\* C23: the hotels listed for a day are its hotels that are not hidden,
\* chosen or not, in the order of their ids: those naming the stop when a
\* stop holds the date, all of them otherwise.
C23_HotelsListedAreAtTheStop ==
    PageRead
        => \A n \in 1..Len(last.page.days) :
               LET day == last.page.days[n]
                   listed == last.page.hotels_filtered_by_day[day]
               IN  listed = OrderById(
                       HotelsAt(OnPage(day), DayLocation(last.page, day)))

\* In Oslo the chosen Hotel Niwa Tokyo is not listed and the Oslo Inn, not
\* chosen, is.
C23_Witness ==
    /\ PageRead
    /\ \E n \in 1..Len(last.page.days) :
           LET day == last.page.days[n]
               listed == Elements(last.page.hotels_filtered_by_day[day])
           IN  /\ DayLocation(last.page, day) = "Oslo"
               /\ \E i \in Chosen(day) :
                      i.name = "Hotel Niwa Tokyo" /\ i \notin listed
               /\ \E i \in listed : i.name = "Oslo Inn" /\ i.checked = 0

\* C24: the page has directions for a day exactly when the day has a
\* chosen hotel and a chosen breakfast or place, none of them hidden; they
\* leave from and come back to the chosen hotel of the lowest id and pass
\* the chosen breakfasts and then the chosen places.
C24_DirectionsNeedHotelAndWaypoint ==
    PageRead
        => \A n \in 1..Len(last.page.days) :
               LET day == last.page.days[n]
                   page == last.page
                   hotels == OrderById({i \in Chosen(day) :
                                           i.category = "hotel"})
                   breakfasts == OrderById({i \in Chosen(day) :
                                     /\ i.category = "restaurant"
                                     /\ i.slot = "breakfast"})
                   places == OrderById({i \in Chosen(day) :
                                           i.category = "place"})
                   city == IF DayLocation(page, day) # None
                           THEN DayLocation(page, day)
                           ELSE page.trip.destination
                   hotel == quote_plus(hotels[1].name) \o "%2C+"
                                \o quote_plus(city)
               IN  /\ day \in DOMAIN page.directions_by_day
                          <=> hotels # <<>> /\ breakfasts \o places # <<>>
                   /\ day \in DOMAIN page.directions_by_day
                          => page.directions_by_day[day]
                                 = "https://www.google.com/maps/dir/?api=1"
                                     \o "&origin=" \o hotel
                                     \o "&destination=" \o hotel
                                     \o "&waypoints="
                                     \o quoted_waypoints(breakfasts \o places,
                                                         city)
                                     \o "&travelmode=driving"

\* Both hotels, a breakfast and the place, which has the lowest id, are
\* chosen.
C24_Witness ==
    /\ PageRead
    /\ \E n \in 1..Len(last.page.days) :
           LET day == last.page.days[n]
           IN  /\ day \in DOMAIN last.page.directions_by_day
               /\ Cardinality({i \in Chosen(day) : i.category = "hotel"}) = 2
               /\ \E b, p \in Chosen(day) :
                      /\ b.slot = "breakfast"
                      /\ p.category = "place"
                      /\ p.id < b.id

(***************************************************************************)
(* Properties of the dashboard.                                            *)
(***************************************************************************)
\* The days of a trip with a description that is not blank or with a
\* chosen item that is not hidden.
ActiveDays(trip_id) ==
    {day \in DaysOf(trip_id) : Described(day) # {} \/ Chosen(day) # {}}

\* C25: the planning status of a trip on the dashboard is Planning when
\* the trip has no days or less than half of them are active, Mostly
\* planned from a half to less than nine tenths, Ready from nine tenths;
\* of four days, none and one give Planning, two and three Mostly planned,
\* four Ready.
C25_PlanningStatus ==
    last.op = "list_trips"
        => \A t \in trips :
               LET active == Cardinality(ActiveDays(t.id))
                   total == Cardinality(DaysOf(t.id))
                   status == last.status_by_trip[t.id]
               IN  /\ status \in {"Planning", "Mostly planned", "Ready"}
                   /\ status = "Planning"
                          <=> total = 0 \/ 2 * active < total
                   /\ status = "Ready"
                          <=> total > 0 /\ 10 * active >= 9 * total
                   /\ total = 4
                          => status = << "Planning", "Planning",
                                         "Mostly planned", "Mostly planned",
                                         "Ready" >>[active + 1]

\* Two days of four are active, one of them by its chosen place alone, and
\* the trip is Mostly planned.
C25_Witness ==
    /\ last.op = "list_trips"
    /\ \E t \in trips :
           /\ Cardinality(DaysOf(t.id)) = 4
           /\ Cardinality(ActiveDays(t.id)) = 2
           /\ \E day \in ActiveDays(t.id) : Described(day) = {}
           /\ last.status_by_trip[t.id] = "Mostly planned"

(***************************************************************************)
(* Properties of the budget.                                               *)
(***************************************************************************)
\* C26: whatever add_budget_item and update_budget_items were sent, the
\* estimated cost and the actual cost of every budget item are not
\* negative.
C26_AmountsAreNotNegative ==
    \A item \in budget_items :
        item.estimated_cost >= 0 /\ item.actual_cost >= 0

(***************************************************************************)
(* Properties of edits made at the same time.                              *)
(***************************************************************************)
\* C28: whatever the order in which two edits of a trip in flight at the
\* same time read and write, the days of the trip are, once they have
\* written, one per date of the range the trip is stored with, numbered
\* from 1: what the two edits give when one runs after the other.
C28_InterleavedEditsKeepTheRange ==
    reading = {}
        => \A t \in trips :
               LET first == parse_date(t.start_date)
                   final == parse_date(t.end_date)
               IN  /\ first <= final
                   /\ {day.date : day \in DaysOf(t.id)}
                          = {isoformat(d) : d \in first..final}
                   /\ \A day \in DaysOf(t.id) :
                          day.day_number
                              = parse_date(day.date) - first + 1
                   /\ Cardinality(DaysOf(t.id)) = final - first + 1

(***************************************************************************)
(* Properties of the sample itinerary.                                     *)
(***************************************************************************)
Generated ==
    /\ last'.op = "generate_itinerary"
    /\ last'.flash = "Sample itinerary generated based on your travel style."

\* The morning text of the styles of the trips generated for.
MorningOf ==
    [style \in {"Foodie", "Budget", "Flexible"} |->
        IF style = "Foodie" THEN "Start your day at a local cafe in Tokyo."
        ELSE IF style = "Budget"
        THEN "Explore a free park, garden, or public space in Tokyo."
        ELSE "Walk through a central neighborhood in Tokyo."]

\* A day with its three descriptions filled from the suggestion where they
\* are empty.
Filled(day, suggestion) ==
    [day EXCEPT !.slots =
        [f \in SlotFields |->
            IF f \in Descriptions /\ day.slots[f] \in {None, ""}
            THEN suggestion[f] ELSE day.slots[f]]]

\* C29: generate_itinerary leaves every description that is not empty as
\* it is and fills every empty one of the trip's days with the text of the
\* trip's style; titles, map links, the days of other trips, the items and
\* every other table stay as they are; generating again on what it left
\* changes nothing.
C29_GenerateFillsOnlyEmpty ==
    [][ Generated
            => LET trip == TripRow(last'.trip_id)
                   days == DaysOf(trip.id)
                   suggestions == build_ai_style_itinerary(trip, days)
               IN  /\ UNCHANGED <<trips, day_items, trip_stops,
                                  budget_items, packing_items, seq>>
                   /\ itinerary' =
                          { IF day \in days
                            THEN Filled(day, suggestions[day.day_number])
                            ELSE day : day \in itinerary }
                   /\ \A day \in days :
                          /\ suggestions[day.day_number].morning_description
                                 = MorningOf[trip.travel_style]
                          /\ \A f \in Descriptions :
                                 suggestions[day.day_number][f] # ""
                   /\ \A day \in itinerary' :
                          day.trip_id = trip.id
                              => /\ \A f \in Descriptions :
                                        day.slots[f] \notin {None, ""}
                                 /\ Filled(day,
                                        suggestions[day.day_number]) = day
      ]_vars

\* A trip has a day whose morning was typed and kept, whose title and
\* place are there, and another day filled with the text of its style.
C29_Witness ==
    /\ last.op = "generate_itinerary"
    /\ last.flash = "Sample itinerary generated based on your travel style."
    /\ \E day \in DaysOf(last.trip_id) :
           /\ day.slots["morning_description"] = "walk"
           /\ day.slots["morning_title"] # None
           /\ \E i \in day_items : i.itinerary_id = day.id
    /\ \E day \in DaysOf(last.trip_id) :
           /\ day.slots["morning_description"]
                  = "Start your day at a local cafe in Tokyo."
           /\ day.slots["afternoon_description"] = "Louvre"

(***************************************************************************)
(* Properties of hiding.                                                   *)
(***************************************************************************)
\* C30: no request makes a hidden item visible again; a request to hide
\* hides no item of a day of another trip than the one it names and
\* changes nothing else; a request for suggestions keeps every hidden item
\* as it is and adds no item with the day, category and name of one.
C30_HidingIsPermanent ==
    [][ /\ \A i \in day_items :
               i.hidden = 1
                   => \A j \in day_items' : j.id = i.id => j.hidden = 1
        /\ last'.op = "hide_day_item"
               => /\ Ids(day_items') = Ids(day_items)
                  /\ \A i \in day_items :
                         \/ i \in day_items'
                         \/ /\ [i EXCEPT !.hidden = 1] \in day_items'
                            /\ i.itinerary_id
                                   \in Ids(DaysOf(last'.trip_id))
        /\ last'.op = "suggest_places"
               => \A i \in day_items :
                      i.hidden = 1
                          => /\ i \in day_items'
                             /\ \A j \in day_items' \ day_items :
                                    ~SameKey(i, j)
      ]_vars

\* After the hotel of a day was hidden the trip was seeded again: the day
\* has its six other suggestions and no second Hotel Niwa Tokyo, and an
\* item of the other trip under the same name is still shown.
C30_Witness ==
    /\ last.op = "suggest_places"
    /\ last.flash # "Trip not found."
    /\ \E i \in ItemsOf(last.trip_id) :
           /\ i.name = "Hotel Niwa Tokyo"
           /\ i.hidden = 1
           /\ \A j \in day_items : SameKey(i, j) => i = j
           /\ Cardinality({j \in day_items :
                              j.itinerary_id = i.itinerary_id}) = 7
    /\ \E k \in day_items \ ItemsOf(last.trip_id) :
           k.name = "Hotel Niwa Tokyo" /\ k.hidden = 0

====
